---- MODULE Spec2Model ----
(***************************************************************************)
(* A model of elastic/testcli: the in-memory store (teststorage.SafeMap),  *)
(* the dynamic-argument resolver, the assertion evaluator, the binary      *)
(* locator, the command-line redaction and the test orchestrator           *)
(* (pkg/engine).                                                           *)
(*                                                                         *)
(* Go strings are TLA+ strings; a Go error is a sequence of messages, the  *)
(* empty sequence being nil; a Go map is a function whose DOMAIN is the    *)
(* set of keys present.                                                    *)
(***************************************************************************)
EXTENDS Integers, Sequences, FiniteSets, TLC

VARIABLES
    db,         \* SafeMap.db: the map of the store
    rwOwner,    \* sync.RWMutex: the goroutine holding the writer mutex (0: none)
    rwReaders,  \* sync.RWMutex: the goroutines holding the read lock
    spc,        \* per store client goroutine: its position in Set / Get
    sop,        \* per store client goroutine: the call it is executing
    sres,       \* per store client goroutine: what its last Get returned
    slog,       \* history: the (key, value) pairs written, in write order
    nops,       \* number of store calls started
    call,       \* the arguments of the function call under evaluation
    ret,        \* what that call returned (NoRet before it has returned)
    fs,         \* the directory layout FindBinaryPath runs in
    find,       \* the FindBinaryPath call in progress: its frames and result
    tests,      \* the Tests passed to ExecuteTests
    loopi,      \* ExecuteTests: the index of the case its loop is at
    released,   \* the test function that called ExecuteTests has returned
    run,        \* per case: where its sub-test is and what it has produced
    testOutput  \* the variable testOutput that the callbacks of a suite share

storeVars == <<db, rwOwner, rwReaders, spc, sop, sres, slog, nops>>
callVars == <<call, ret>>
findVars == <<fs, find>>
orchVars == <<tests, loopi, released, run, testOutput>>
vars == <<db, rwOwner, rwReaders, spc, sop, sres, slog, nops, call, ret, fs, find,
          tests, loopi, released, run, testOutput>>

----------------------------------------------------------------------------
(* Bounds of the model.                                                    *)

NProcs == 2      \* goroutines calling the store in SpecStore
MaxOps == 3      \* store calls started in one behaviour of SpecStore
NConc == 3       \* N of the N concurrent Set / N concurrent Get scenario
MaxArgs == 2     \* longest dynamic-argument token list
MaxCmd == 3      \* most tokens of a rendered command line
MaxDepth == 6    \* most nested FindBinaryPath frames followed
NCases == 2      \* cases of the suite passed to ExecuteTests
MaxLines == 2    \* most interactive lines of a command

Keys == {"akey", "bkey"}
Vals == {"avalue", "bvalue"}

----------------------------------------------------------------------------
(* package strings                                                         *)

\* strings.HasPrefix
HasPrefix(s, prefix) ==
    /\ Len(s) >= Len(prefix)
    /\ SubSeq(s, 1, Len(prefix)) = prefix

\* strings.Contains
Contains(s, substr) ==
    \E i \in 0..(Len(s) - Len(substr)) : SubSeq(s, i + 1, i + Len(substr)) = substr

\* strings.Index, 1-based; 0 when substr does not occur in s
Index(s, substr) ==
    IF Contains(s, substr)
    THEN CHOOSE i \in 1..(Len(s) - Len(substr) + 1) :
            /\ SubSeq(s, i, i + Len(substr) - 1) = substr
            /\ \A j \in 1..(i - 1) : SubSeq(s, j, j + Len(substr) - 1) # substr
    ELSE 0

\* strings.Replace(s, old, new, 1) for a non-empty old
ReplaceFirst(s, old, new) ==
    LET i == Index(s, old) IN
    IF i = 0 THEN s
    ELSE SubSeq(s, 1, i - 1) \o new \o SubSeq(s, i + Len(old), Len(s))

----------------------------------------------------------------------------
(* teststorage.SafeMap                                                     *)

\* NewSafeMap: make(map[string]string)
NewSafeMap == [k \in {} |-> ""]

\* r, ok := m.db[k]
MapGet(m, k) ==
    IF k \in DOMAIN m THEN [v |-> m[k], ok |-> TRUE] ELSE [v |-> "", ok |-> FALSE]

\* a Set that rebuilds the map from the written pair alone
MapSet_DropsOthers(m, k, v) ==
    [x \in {k} |-> v]

\* m.db[k] = v
MapSet(m, k, v) ==
    [x \in (DOMAIN m) \cup {k} |-> IF x = k THEN v ELSE m[x]]

\* a Lock that does not take the writer mutex
CanLock_NoMutex == TRUE

\* m.Lock(), first half: the writer mutex rw.w is free
CanLock == rwOwner = 0

\* m.Lock(), second half: the active readers have drained
ReadersDrained == rwReaders = {}

\* m.RLock(): no writer holds or waits for the lock
CanRLock == rwOwner = 0

Goroutines == DOMAIN spc

\* a goroutine is between Lock / RLock and the matching unlock
InLockedSection(p) == spc[p] \in {"locked", "unlock", "rlocked", "runlock"}

\* Set: m.Lock() takes the writer mutex and announces the writer
SetLock(p) ==
    /\ spc[p] = "call" /\ sop[p].op = "Set"
    /\ CanLock
    /\ rwOwner' = p
    /\ spc' = [spc EXCEPT ![p] = "drain"]
    /\ UNCHANGED <<db, rwReaders, sop, sres, slog, nops, callVars, findVars, orchVars>>

\* Set: m.Lock() returns once no reader is active
SetLocked(p) ==
    /\ spc[p] = "drain"
    /\ ReadersDrained
    /\ spc' = [spc EXCEPT ![p] = "locked"]
    /\ UNCHANGED <<db, rwOwner, rwReaders, sop, sres, slog, nops, callVars, findVars, orchVars>>

\* Set: m.db[k] = v
SetWrite(p) ==
    /\ spc[p] = "locked"
    /\ db' = MapSet(db, sop[p].k, sop[p].v)
    /\ slog' = Append(slog, <<sop[p].k, sop[p].v>>)
    /\ spc' = [spc EXCEPT ![p] = "unlock"]
    /\ UNCHANGED <<rwOwner, rwReaders, sop, sres, nops, callVars, findVars, orchVars>>

\* Set: the deferred m.Unlock(), then the call returns
SetUnlock(p) ==
    /\ spc[p] = "unlock"
    /\ rwOwner' = IF rwOwner = p THEN 0 ELSE rwOwner
    /\ spc' = [spc EXCEPT ![p] = "ret"]
    /\ UNCHANGED <<db, rwReaders, sop, sres, slog, nops, callVars, findVars, orchVars>>

\* Get: m.RLock()
GetRLock(p) ==
    /\ spc[p] = "call" /\ sop[p].op = "Get"
    /\ CanRLock
    /\ rwReaders' = rwReaders \cup {p}
    /\ spc' = [spc EXCEPT ![p] = "rlocked"]
    /\ UNCHANGED <<db, rwOwner, sop, sres, slog, nops, callVars, findVars, orchVars>>

\* Get: r, ok := m.db[k]
GetRead(p) ==
    /\ spc[p] = "rlocked"
    /\ sres' = [sres EXCEPT ![p] = MapGet(db, sop[p].k)]
    /\ spc' = [spc EXCEPT ![p] = "runlock"]
    /\ UNCHANGED <<db, rwOwner, rwReaders, sop, slog, nops, callVars, findVars, orchVars>>

\* Get: the deferred m.RUnlock(), then the call returns r, ok
GetRUnlock(p) ==
    /\ spc[p] = "runlock"
    /\ rwReaders' = rwReaders \ {p}
    /\ spc' = [spc EXCEPT ![p] = "ret"]
    /\ UNCHANGED <<db, rwOwner, sop, sres, slog, nops, callVars, findVars, orchVars>>

\* one step of a Set or Get call in progress
StoreStep(p) ==
    \/ SetLock(p)
    \/ SetLocked(p)
    \/ SetWrite(p)
    \/ SetUnlock(p)
    \/ GetRLock(p)
    \/ GetRead(p)
    \/ GetRUnlock(p)

NoCall == [op |-> "none", k |-> "", v |-> ""]
NoRes == [v |-> "", ok |-> FALSE]
NoRet == [fn |-> "none"]
NoFs == [files |-> {}, start |-> <<>>]
NoFind == [pc |-> "none"]

\* no store client goroutine is running
StoreIdle ==
    /\ db = NewSafeMap
    /\ rwOwner = 0
    /\ rwReaders = {}
    /\ spc = <<>>
    /\ sop = <<>>
    /\ sres = <<>>
    /\ slog = <<>>
    /\ nops = 0

\* no function call is under evaluation
CallIdle == call = NoRet /\ ret = NoRet

\* no FindBinaryPath call is in progress
FindIdle == fs = NoFs /\ find = NoFind

\* ExecuteTests has not been called
OrchIdle ==
    tests = <<>> /\ loopi = 0 /\ released = FALSE /\ run = <<>> /\ testOutput = <<>>

\* a goroutine that is idle or has returned calls Set(k, v)
CallSet(p) ==
    /\ spc[p] \in {"idle", "ret"}
    /\ nops < MaxOps
    /\ \E k \in Keys, v \in Vals : sop' = [sop EXCEPT ![p] = [op |-> "Set", k |-> k, v |-> v]]
    /\ spc' = [spc EXCEPT ![p] = "call"]
    /\ nops' = nops + 1
    /\ UNCHANGED <<db, rwOwner, rwReaders, sres, slog, callVars, findVars, orchVars>>

\* a goroutine that is idle or has returned calls Get(k)
CallGet(p) ==
    /\ spc[p] \in {"idle", "ret"}
    /\ nops < MaxOps
    /\ \E k \in Keys : sop' = [sop EXCEPT ![p] = [op |-> "Get", k |-> k, v |-> ""]]
    /\ spc' = [spc EXCEPT ![p] = "call"]
    /\ nops' = nops + 1
    /\ UNCHANGED <<db, rwOwner, rwReaders, sres, slog, callVars, findVars, orchVars>>

InitStore ==
    /\ db = NewSafeMap
    /\ rwOwner = 0
    /\ rwReaders = {}
    /\ spc = [p \in 1..NProcs |-> "idle"]
    /\ sop = [p \in 1..NProcs |-> NoCall]
    /\ sres = [p \in 1..NProcs |-> NoRes]
    /\ slog = <<>>
    /\ nops = 0
    /\ CallIdle
    /\ FindIdle
    /\ OrchIdle

NextStore ==
    \E p \in Goroutines :
        \/ CallSet(p)
        \/ CallGet(p)
        \/ StoreStep(p)

SpecStore == InitStore /\ [][NextStore]_vars

----------------------------------------------------------------------------
(* The concurrency scenario of the store: NConc goroutines each Set their  *)
(* own key, and once all of them have returned NConc goroutines each Get   *)
(* one of those keys.                                                      *)

Setters == 1..NConc
Getters == (NConc + 1)..(2 * NConc)
ConcKey(i) == "key" \o ToString(i)

\* the goroutine is started; a getter is started after every setter returned
ConcGo(p) ==
    /\ spc[p] = "idle"
    /\ p \in Getters => \A q \in Setters : spc[q] = "ret"
    /\ spc' = [spc EXCEPT ![p] = "call"]
    /\ nops' = nops + 1
    /\ UNCHANGED <<db, rwOwner, rwReaders, sop, sres, slog, callVars, findVars, orchVars>>

InitConc ==
    /\ db = NewSafeMap
    /\ rwOwner = 0
    /\ rwReaders = {}
    /\ spc = [p \in Setters \cup Getters |-> "idle"]
    /\ \E w \in [Setters -> Vals] :
          sop = [p \in Setters \cup Getters |->
                    IF p \in Setters
                    THEN [op |-> "Set", k |-> ConcKey(p), v |-> w[p]]
                    ELSE [op |-> "Get", k |-> ConcKey(p - NConc), v |-> ""]]
    /\ sres = [p \in Setters \cup Getters |-> NoRes]
    /\ slog = <<>>
    /\ nops = 0
    /\ CallIdle
    /\ FindIdle
    /\ OrchIdle

NextConc ==
    \E p \in Goroutines :
        \/ ConcGo(p)
        \/ StoreStep(p)

\* every started goroutine is scheduled again and again
SpecConc ==
    /\ InitConc
    /\ [][NextConc]_vars
    /\ \A p \in Setters \cup Getters : WF_vars(ConcGo(p) \/ StoreStep(p))

----------------------------------------------------------------------------
(* parseDynamicArguments (execution.go)                                    *)

\* a resolver that passes flags through and looks every other token up
prefixedKey_FlagOnly(key) == HasPrefix(key, "-")

\* prefixedKey := strings.HasPrefix(key, "-") || strings.HasPrefix(key, "strip_")
prefixedKey(key) == HasPrefix(key, "-") \/ HasPrefix(key, "strip_")

\* the key a prefixed token is appended as
strippedKey(key) ==
    IF HasPrefix(key, "strip_") THEN ReplaceFirst(key, "strip_", "") ELSE key

\* the loop of parseDynamicArguments over the tokens left; lookups records
\* the keys it has passed to storage.Get
RECURSIVE parseLoop(_, _, _, _)
parseLoop(dynamicArgs, storage, result, lookups) ==
    IF dynamicArgs = <<>>
    THEN [args |-> result, err |-> <<>>, lookups |-> lookups]
    ELSE LET key == Head(dynamicArgs) IN
         IF prefixedKey(key)
         THEN parseLoop(Tail(dynamicArgs), storage, Append(result, strippedKey(key)), lookups)
         ELSE LET got == MapGet(storage, key) IN
              IF ~got.ok
              THEN [args |-> <<>>,
                    err |-> <<"failed to obtain value of key " \o key>>,
                    lookups |-> Append(lookups, key)]
              ELSE parseLoop(Tail(dynamicArgs), storage, Append(result, got.v),
                             Append(lookups, key))

parseDynamicArguments(dynamicArgs, storage) ==
    parseLoop(dynamicArgs, storage, <<>>, <<>>)

\* the tokens and the store contents the resolver is applied to
Tokens == {"akey", "unexisting key", "-f", "strip_akey", "strip_strip_x", "-strip_akey"}
StoredKeys == {"akey", "-f", "strip_akey"}
Stores == {[k \in S |-> k \o "=value"] : S \in SUBSET StoredKeys}
TokenLists == UNION {[1..n -> Tokens] : n \in 0..MaxArgs}

InitArgs ==
    /\ StoreIdle
    /\ FindIdle
    /\ OrchIdle
    /\ \E t \in TokenLists, m \in Stores :
          call = [fn |-> "parseDynamicArguments", dynamicArgs |-> t, storage |-> m]
    /\ ret = NoRet

ParseDynamicArguments ==
    /\ call.fn = "parseDynamicArguments"
    /\ ret = NoRet
    /\ ret' = [fn |-> "parseDynamicArguments"] @@
              parseDynamicArguments(call.dynamicArgs, call.storage)
    /\ UNCHANGED <<call, storeVars, findVars, orchVars>>

NextArgs == ParseDynamicArguments

SpecArgs == InitArgs /\ [][NextArgs]_vars

----------------------------------------------------------------------------
(* Assertions.Ensure and its checks (test.go)                              *)

\* fmt's %v of an error and of a bool
ErrString(err) == IF err = <<>> THEN "<nil>" ELSE err[1]
BoolString(b) == IF b THEN "true" ELSE "false"

\* NewPrefixedError(prefix, err): nil for a nil err, else the messages of err
\* under the prefix
NewPrefixedError(prefix, err) ==
    [i \in 1..Len(err) |-> prefix \o ": " \o err[i]]

\* a strict check that accepts an output containing the wanted string
wantedErr_StrictContains(out, want, strict) ==
    IF ~Contains(out, want)
    THEN <<"didn't find \"" \o want \o "\" in standard output: \"" \o out \o "\"">>
    ELSE <<>>

\* assertWanted, the body of its loop: the errors appended for one want
wantedErr(out, want, strict) ==
    (IF strict /\ out # want
     THEN <<"strict match got \"" \o out \o "\" want \"" \o want \o "\"">>
     ELSE <<>>)
    \o
    (IF ~strict /\ ~Contains(out, want)
     THEN <<"didn't find \"" \o want \o "\" in standard output: \"" \o out \o "\"">>
     ELSE <<>>)

RECURSIVE wantedErrs(_, _, _)
wantedErrs(out, wants, strict) ==
    IF wants = <<>> THEN <<>>
    ELSE wantedErr(out, Head(wants), strict) \o wantedErrs(out, Tail(wants), strict)

assertWanted(out, w) ==
    LET errs == wantedErrs(out, w.Output, w.Strict) IN
    IF Len(errs) > 0 THEN NewPrefixedError("must find", errs) ELSE <<>>

\* regexp.Compile, for the patterns of the model: a literal text compiles, a
\* pattern with an unclosed "(" does not
regexpCompiles(pattern) == ~Contains(pattern, "(")

\* re.FindStringIndex(out) # nil for a compiled literal pattern
regexpFinds(pattern, out) == Contains(out, pattern)

\* assertPattern, the body of its loop. A pattern that does not compile
\* leaves re nil, and re.FindStringIndex on the nil *Regexp panics.
RECURSIVE patternErrs(_, _)
patternErrs(out, patterns) ==
    IF patterns = <<>> THEN [errs |-> <<>>, panic |-> FALSE]
    ELSE LET pattern == Head(patterns) IN
         IF ~regexpCompiles(pattern)
         THEN [errs |-> <<"match pattern \"" \o pattern \o "\" did not compile">>,
               panic |-> TRUE]
         ELSE LET rest == patternErrs(out, Tail(patterns))
                  this == IF ~regexpFinds(pattern, out)
                          THEN <<"couldn't match pattern \"" \o pattern
                                 \o "\" to standard output: \"" \o out \o "\"">>
                          ELSE <<>>
              IN [errs |-> this \o rest.errs, panic |-> rest.panic]

assertPattern(out, patterns) ==
    LET r == patternErrs(out, patterns) IN
    [errs |-> IF Len(r.errs) > 0
              THEN NewPrefixedError("must find pattern", r.errs) ELSE <<>>,
     panic |-> r.panic]

RECURSIVE errorsErrs(_, _)
errorsErrs(stderr, errrs) ==
    IF errrs = <<>> THEN <<>>
    ELSE LET want == Head(errrs) IN
         (IF ~Contains(stderr, want)
          THEN <<"didn't find \"" \o want \o "\" in standard error: \"" \o stderr \o "\"">>
          ELSE <<>>)
         \o errorsErrs(stderr, Tail(errrs))

assertErrors(stderr, errrs) ==
    LET errs == errorsErrs(stderr, errrs) IN
    IF Len(errs) > 0 THEN NewPrefixedError("must find errors", errs) ELSE <<>>

RECURSIVE dynamicErrs(_, _, _)
dynamicErrs(out, dynamic, storage) ==
    IF dynamic = <<>> THEN <<>>
    ELSE LET key == Head(dynamic)
             got == MapGet(storage, key)
             value == IF got.ok THEN got.v ELSE key
         IN (IF ~Contains(out, value)
             THEN <<"didn't find dynamic key \"" \o key \o "\" with value \"" \o value
                    \o "\" in standard output: \"" \o out \o "\"">>
             ELSE <<>>)
            \o dynamicErrs(out, Tail(dynamic), storage)

assertDynamic(out, dynamic, storage) ==
    LET errs == dynamicErrs(out, dynamic, storage) IN
    IF Len(errs) > 0
    THEN NewPrefixedError("must find values from dynamic storage", errs)
    ELSE <<>>

RECURSIVE mustNotOutputErrs(_, _, _)
mustNotOutputErrs(out, outputs, strict) ==
    IF outputs = <<>> THEN <<>>
    ELSE LET mustNot == Head(outputs) IN
         (IF strict /\ out = mustNot
          THEN <<"strict match got \"" \o out \o "\" must not: \"" \o mustNot \o "\"">>
          ELSE <<>>)
         \o
         (IF ~strict /\ Contains(out, mustNot)
          THEN <<"found \"" \o mustNot \o "\" in standard output: \"" \o out \o "\"">>
          ELSE <<>>)
         \o mustNotOutputErrs(out, Tail(outputs), strict)

RECURSIVE mustNotErrorsErrs(_, _)
mustNotErrorsErrs(stderr, errors) ==
    IF errors = <<>> THEN <<>>
    ELSE LET mustNot == Head(errors) IN
         (IF Contains(stderr, mustNot)
          THEN <<"found \"" \o mustNot \o "\" in standard error:\"" \o stderr \o "\"">>
          ELSE <<>>)
         \o mustNotErrorsErrs(stderr, Tail(errors))

assertMustNot(out, stderr, not) ==
    LET errs == mustNotOutputErrs(out, not.Output, not.Strict)
                \o mustNotErrorsErrs(stderr, not.Errors) IN
    IF Len(errs) > 0 THEN NewPrefixedError("must not find values", errs) ELSE <<>>

\* an exit check that CanError does not switch off
exitMismatch_IgnoresCanError(a, err) ==
    /\ (err # <<>>) # a.WantErr
    /\ Len(a.CanErrorWithMessage) = 0

\* (err != nil) != a.WantErr && !a.CanError && len(a.CanErrorWithMessage) == 0
exitMismatch(a, err) ==
    /\ (err # <<>>) # a.WantErr
    /\ ~a.CanError
    /\ Len(a.CanErrorWithMessage) = 0

\* a known-failure check that looks at the first message only
knownFailure_FirstOnly(a, stderrString) ==
    /\ Len(a.CanErrorWithMessage) > 0
    /\ Contains(stderrString, a.CanErrorWithMessage[1])

\* the loop over a.CanErrorWithMessage: some message is contained in stderr
knownFailure(a, stderrString) ==
    \E i \in 1..Len(a.CanErrorWithMessage) :
        Contains(stderrString, a.CanErrorWithMessage[i])

\* Assertions.Ensure. err: the error returned; panic: the call panicked
\* instead of returning; checks: the assert functions it called, in order.
Ensure(a, stdout, stderr, err, storage, args) ==
    IF exitMismatch(a, err)
    THEN [err |-> <<"command: \"" \o args \o "\"\nerror = " \o ErrString(err)
                    \o ", wantErr = " \o BoolString(a.WantErr)
                    \o ", stderr = " \o stderr>>,
          panic |-> FALSE, checks |-> <<>>]
    ELSE IF knownFailure(a, stderr)
    THEN [err |-> <<>>, panic |-> FALSE, checks |-> <<>>]
    ELSE LET wanted == assertWanted(stdout, a.Must)
             pattern == assertPattern(stdout, a.Must.Pattern)
             errs == wanted
                     \o pattern.errs
                     \o assertErrors(stderr, a.Must.Errors)
                     \o assertDynamic(stdout, a.Must.Dynamic, storage)
                     \o assertMustNot(stdout, stderr, a.Not)
         IN IF pattern.panic
            THEN [err |-> <<>>, panic |-> TRUE,
                  checks |-> <<"assertWanted", "assertPattern">>]
            ELSE [err |-> IF Len(errs) > 0
                          THEN NewPrefixedError("assertion", errs) ELSE <<>>,
                  panic |-> FALSE,
                  checks |-> <<"assertWanted", "assertPattern", "assertErrors",
                               "assertDynamic", "assertMustNot">>]

\* the inputs the evaluator is applied to
Assertion(output, errors, dynamic, strict, pattern) ==
    [Output |-> output, Errors |-> errors, Dynamic |-> dynamic,
     Strict |-> strict, Pattern |-> pattern]

WantedOuts == {"", "A\n", "A\n\n", "B"}
WantedLists == UNION {[1..n -> {"A\n", "A\n\n", "A"}] : n \in 0..2}

InitWanted ==
    /\ StoreIdle
    /\ FindIdle
    /\ OrchIdle
    /\ \E out \in WantedOuts, wants \in WantedLists, strict \in BOOLEAN :
          call = [fn |-> "assertWanted", out |-> out,
                  w |-> Assertion(wants, <<>>, <<>>, strict, <<>>)]
    /\ ret = NoRet

AssertWanted ==
    /\ call.fn = "assertWanted"
    /\ ret = NoRet
    /\ ret' = [fn |-> "assertWanted", err |-> assertWanted(call.out, call.w)]
    /\ UNCHANGED <<call, storeVars, findVars, orchVars>>

NextWanted == AssertWanted

SpecWanted == InitWanted /\ [][NextWanted]_vars

EnsureStdouts == {"A\n", "B"}
EnsureStderrs == {"", "boom"}
ExecErrs == {<<>>, <<"exit status 1">>}
KnownFailures == {<<>>, <<"boom">>, <<"nope", "boom">>}
MustOutputs == {<<>>, <<"A\n">>, <<"B">>}
MustPatterns == {<<>>, <<"A">>, <<"(", "A">>}
MustErrors == {<<>>, <<"boom">>}
MustDynamics == {<<>>, <<"akey">>}
EnsureStores == {NewSafeMap, [k \in {"akey"} |-> "B"]}
NotOutputs == {<<>>, <<"A\n">>}
NotErrors == {<<>>, <<"boom">>}

EnsureAssertions ==
    {[WantErr |-> we, CanError |-> ce, CanErrorWithMessage |-> kf,
      Must |-> Assertion(mo, me, md, ms, mp),
      Not |-> Assertion(no, ne, <<>>, ns, <<>>)] :
        we \in BOOLEAN, ce \in BOOLEAN, kf \in KnownFailures,
        mo \in MustOutputs, me \in MustErrors, md \in MustDynamics,
        ms \in BOOLEAN, mp \in MustPatterns,
        no \in NotOutputs, ne \in NotErrors, ns \in BOOLEAN}

InitEnsure ==
    /\ StoreIdle
    /\ FindIdle
    /\ OrchIdle
    /\ \E a \in EnsureAssertions, out \in EnsureStdouts, serr \in EnsureStderrs,
          e \in ExecErrs, m \in EnsureStores :
          call = [fn |-> "Ensure", a |-> a, stdout |-> out, stderr |-> serr,
                  err |-> e, storage |-> m, args |-> "ls -1"]
    /\ ret = NoRet

CallEnsure ==
    /\ call.fn = "Ensure"
    /\ ret = NoRet
    /\ ret' = [fn |-> "Ensure"] @@
              Ensure(call.a, call.stdout, call.stderr, call.err, call.storage, call.args)
    /\ UNCHANGED <<call, storeVars, findVars, orchVars>>

NextEnsure == CallEnsure

SpecEnsure == InitEnsure /\ [][NextEnsure]_vars

----------------------------------------------------------------------------
(* redactPasswordFlag (execution.go)                                       *)

\* strings.Join
RECURSIVE Join(_, _)
Join(elems, sep) ==
    IF elems = <<>> THEN ""
    ELSE IF Len(elems) = 1 THEN elems[1]
    ELSE elems[1] \o sep \o Join(Tail(elems), sep)

\* the character of s at position i
CharAt(s, i) == SubSeq(s, i, i)

\* the end of the match of `\-\-pass?[ =]([^ ]+)` that starts at position i
\* of cmd, 0 when the expression does not match there: "--pas", an optional
\* "s", a space or "=", then the longest run of characters other than space
passMatchEnd(cmd, i) ==
    IF i + 4 > Len(cmd) \/ SubSeq(cmd, i, i + 4) # "--pas" THEN 0
    ELSE LET sep == IF i + 5 <= Len(cmd) /\ CharAt(cmd, i + 5) = "s"
                    THEN i + 6 ELSE i + 5
         IN IF sep > Len(cmd) \/ CharAt(cmd, sep) \notin {" ", "="} THEN 0
            ELSE IF sep + 1 > Len(cmd) \/ CharAt(cmd, sep + 1) = " " THEN 0
            ELSE CHOOSE k \in (sep + 1)..Len(cmd) :
                    /\ \A x \in (sep + 1)..k : CharAt(cmd, x) # " "
                    /\ k = Len(cmd) \/ CharAt(cmd, k + 1) = " "

\* re.ReplaceAllString(cmd, "--pass [REDACTED]") from position i on: the
\* leftmost matches, one after the other, each replaced
RECURSIVE replaceAllFrom(_, _)
replaceAllFrom(cmd, i) ==
    IF i > Len(cmd) THEN ""
    ELSE LET e == passMatchEnd(cmd, i) IN
         IF e > 0 THEN "--pass [REDACTED]" \o replaceAllFrom(cmd, e + 1)
         ELSE CharAt(cmd, i) \o replaceAllFrom(cmd, i + 1)

redactPasswordFlag(cmd) == replaceAllFrom(cmd, 1)

\* the argument tokens the command lines are built from
CmdTokens == {"ecl", "--user", "--pass", "--pass=MySecret", "MySecret", "My Secret", "--pas"}
CmdLines == UNION {[1..n -> CmdTokens] : n \in 1..MaxCmd}

InitRedact ==
    /\ StoreIdle
    /\ FindIdle
    /\ OrchIdle
    /\ \E t \in CmdLines :
          call = [fn |-> "redactPasswordFlag", tokens |-> t, cmd |-> Join(t, " ")]
    /\ ret = NoRet

RedactPasswordFlag ==
    /\ call.fn = "redactPasswordFlag"
    /\ ret = NoRet
    /\ ret' = [fn |-> "redactPasswordFlag", out |-> redactPasswordFlag(call.cmd)]
    /\ UNCHANGED <<call, storeVars, findVars, orchVars>>

NextRedact == RedactPasswordFlag

SpecRedact == InitRedact /\ [][NextRedact]_vars

----------------------------------------------------------------------------
(* FindBinaryPath (execution.go)                                           *)
(*                                                                         *)
(* A path is the sequence of its components below the filesystem root,     *)
(* the root being the empty sequence. The layout is a fixed tree of        *)
(* directories, one of them named like the binary, and a set of            *)
(* directories that hold a regular file named like the binary; files with  *)
(* other names never match and are left out.                               *)

binaryName == "bin"
Root == <<>>
Dirs == {<<>>, <<"a">>, <<"a", "w">>, <<"a", "w", "s">>, <<"a", "apath">>,
         <<"b">>, <<"b", "bin">>}
FileSpots == Dirs \ {<<"b">>}

\* the names of the layout in the lexical order filepath.Walk reads a
\* directory in
SortedNames == <<"a", "apath", "b", "bin", "s", "w">>

\* filepath.Dir of an absolute path: the root is its own parent
filepathDir(p) == IF p = <<>> THEN <<>> ELSE SubSeq(p, 1, Len(p) - 1)

\* filepath.Rel(p, path) for a path at or below p
filepathRel(p, path) ==
    IF path = p THEN "." ELSE Join(SubSeq(path, Len(p) + 1, Len(path)), "/")

\* a frame that returns the path found by the call below it as it is
joinParent_NoDotDot(binaryPath) == binaryPath

\* filepath.Join("..", binaryPath)
joinParent(binaryPath) ==
    IF binaryPath = "" THEN ".." ELSE "../" \o binaryPath

\* the entries of a directory, sorted by name
dirEntries(dir, files) ==
    LET present(n) == \/ Append(dir, n) \in Dirs
                      \/ n = binaryName /\ dir \in files
        names == SelectSeq(SortedNames, present)
    IN [i \in 1..Len(names) |->
            [path |-> Append(dir, names[i]), isDir |-> Append(dir, names[i]) \in Dirs]]

\* the walk function FindBinaryPath passes to filepath.Walk: bp is the
\* binaryPath variable it assigns, err what it returns
walkFn(p, path, isDir, bp) ==
    IF path # <<>> /\ path[Len(path)] = binaryName /\ ~isDir
    THEN [bp |-> filepathRel(p, path), err |-> "SkipDir"]
    ELSE [bp |-> bp, err |-> "nil"]

\* filepath.walk: the function is called on the path, then on the entries of
\* a directory in order. SkipDir returned for a file ends the walk of the
\* directory holding it; SkipDir coming out of a directory is dropped by the
\* directory above, which goes on with its next entry.
RECURSIVE walk(_, _, _, _, _)
RECURSIVE walkEntries(_, _, _, _)
walk(p, files, path, isDir, bp) ==
    LET r == walkFn(p, path, isDir, bp) IN
    IF ~isDir \/ r.err # "nil" THEN r
    ELSE walkEntries(p, files, dirEntries(path, files), r.bp)

walkEntries(p, files, entries, bp) ==
    IF entries = <<>> THEN [bp |-> bp, err |-> "nil"]
    ELSE LET e == Head(entries)
             r == walk(p, files, e.path, e.isDir, bp)
         IN IF r.err # "nil" /\ ~e.isDir
            THEN r
            ELSE walkEntries(p, files, Tail(entries), r.bp)

\* filepath.Walk(p, ...): binaryPath after the walk (Walk itself returns nil)
filepathWalk(p, files) == walk(p, files, p, TRUE, "").bp

\* FindBinaryPath, one frame: p is absolute, walk its subtree; a match is
\* returned, otherwise the frame calls FindBinaryPath(filepath.Dir(p), binary)
FindWalk ==
    /\ find.pc = "call"
    /\ LET binaryPath == filepathWalk(find.p, fs.files) IN
       IF binaryPath # ""
       THEN find' = [find EXCEPT !.binaryPath = binaryPath,
                                 !.pc = IF find.depth = 0 THEN "done" ELSE "return"]
       ELSE /\ find.depth < MaxDepth
            /\ find' = [find EXCEPT !.p = filepathDir(find.p),
                                    !.depth = find.depth + 1,
                                    !.rootMisses = IF find.p = Root
                                                   THEN find.rootMisses + 1
                                                   ELSE find.rootMisses]
    /\ UNCHANGED <<fs, storeVars, callVars, orchVars>>

\* the frame above gets the path and returns filepath.Join("..", binaryPath), err
FindReturn ==
    /\ find.pc = "return"
    /\ find' = [find EXCEPT !.binaryPath = joinParent(find.binaryPath),
                            !.depth = find.depth - 1,
                            !.pc = IF find.depth = 1 THEN "done" ELSE "return"]
    /\ UNCHANGED <<fs, storeVars, callVars, orchVars>>

InitFind ==
    /\ StoreIdle
    /\ CallIdle
    /\ OrchIdle
    /\ \E files \in SUBSET FileSpots, start \in Dirs :
          /\ fs = [files |-> files, start |-> start]
          /\ find = [pc |-> "call", p |-> start, depth |-> 0, binaryPath |-> "",
                     err |-> <<>>, rootMisses |-> 0]

NextFind == FindWalk \/ FindReturn

SpecFind == InitFind /\ [][NextFind]_vars

----------------------------------------------------------------------------
(* ExecuteTests and executeTestCase (execution.go)                         *)
(*                                                                         *)
(* The host framework: t.Run starts the sub-test and returns when the      *)
(* sub-test function has returned, has left by t.Fatal, or has called      *)
(* t.Parallel; a sub-test that called t.Parallel stays paused until the    *)
(* test function that called ExecuteTests has returned, and then runs      *)
(* concurrently with the other parallel sub-tests.                         *)

\* failRed, without the colour escape sequences around it
failRed == "FAIL"

NoRules == Assertion(<<>>, <<>>, <<>>, FALSE, <<>>)
NoCallbacks == [k \in {} |-> "none"]

Test(name, binary, findBinary, args, dynamicArgs, must, callbacks) ==
    [Name |-> name, Binary |-> binary, FindBinary |-> findBinary,
     Args |-> [Args |-> args, Config |-> <<>>, DynamicArgs |-> dynamicArgs,
               Interactive |-> <<>>],
     \* the field Assert of Test
     Asserts |-> [WantErr |-> FALSE, CanError |-> FALSE, CanErrorWithMessage |-> <<>>,
                 Must |-> must, Not |-> NoRules],
     Callbacks |-> callbacks,
     WaitBeforeRun |-> 0,
     Parallel |-> FALSE]

\* the cases of a suite that hands values over: two that store the decoded
\* output under the key "m" (the assertion of the second fails) and two that
\* pass the stored value to echo (the binary of the second is searched for)
CaseTemplates ==
    {Test("decode X", "echo", FALSE, <<"{\"message\":\"X\"}">>, <<>>,
          Assertion(<<"X">>, <<>>, <<>>, FALSE, <<>>), [k \in {"m"} |-> "decodeEchoData"]),
     Test("decode Y", "echo", FALSE, <<"{\"message\":\"Y\"}">>, <<>>,
          Assertion(<<"X">>, <<>>, <<>>, FALSE, <<>>), [k \in {"m"} |-> "decodeEchoData"]),
     Test("print stored", "echo", FALSE, <<>>, <<"m">>,
          Assertion(<<"X\n">>, <<>>, <<>>, TRUE, <<>>), NoCallbacks),
     Test("find and print literal and stored", "echo", TRUE, <<>>, <<"strip_m", "m">>,
          NoRules, NoCallbacks)}

Cases == {[t EXCEPT !.Parallel = par] : t \in CaseTemplates, par \in BOOLEAN}

\* the cases of a suite that meets setup errors, commands that fail and
\* delays: a command that exits with status 1 as wanted, without and with
\* interactive lines; a command that prints, is given interactive lines and
\* is wanted to fail; a case that waits 300ms and stores the message of its
\* output under the key "m" and the keys of its hrefs under "h"; a case that
\* stores what testOutput holds after an output without a message; a case
\* that takes the value of "m" as its argument; a case whose binary is
\* searched for and whose output is not a document; a case without a binary;
\* a case with a pattern that does not compile
RunnerTemplates ==
    {[Test("want error", "false", FALSE, <<>>, <<>>, NoRules, NoCallbacks)
        EXCEPT !.Asserts.WantErr = TRUE],
     [Test("want error, interactive", "false", FALSE, <<>>, <<>>, NoRules, NoCallbacks)
        EXCEPT !.Asserts.WantErr = TRUE, !.Args.Interactive = <<"y">>],
     [Test("print, interactive, want error", "echo", FALSE, <<"X">>, <<>>,
           Assertion(<<"X">>, <<>>, <<>>, FALSE, <<>>), [k \in {"q"} |-> "decodeEchoData"])
        EXCEPT !.Asserts.WantErr = TRUE, !.Asserts.CanError = TRUE,
               !.Args.Interactive = <<"y">>],
     [Test("wait and decode", "echo", FALSE,
           <<"{\"message\":\"X\",\"hrefs\":{\"b\":\"/b\",\"a\":\"/a\"}}">>, <<>>, NoRules,
           [k \in {"m", "h"} |->
               IF k = "m" THEN "decodeEchoData" ELSE "decodeEchoDataHrefKeys"])
        EXCEPT !.WaitBeforeRun = 300],
     Test("decode without message", "echo", FALSE, <<"{}">>, <<>>, NoRules,
          [k \in {"e"} |-> "decodeEchoData"]),
     Test("decode null hrefs", "echo", FALSE, <<"{\"hrefs\":null}">>, <<>>, NoRules,
          [k \in {"z"} |-> "decodeEchoData"]),
     Test("print stored", "echo", FALSE, <<>>, <<"m">>, NoRules, NoCallbacks),
     Test("find binary", "echo", TRUE, <<"X">>, <<>>, NoRules,
          [k \in {"n"} |-> "decodeEchoData"]),
     Test("no binary", "", FALSE, <<"X">>, <<>>, NoRules,
          [k \in {"m"} |-> "decodeEchoData"]),
     Test("bad pattern", "echo", FALSE, <<"{\"message\":\"X\"}">>, <<>>,
          Assertion(<<>>, <<>>, <<>>, FALSE, <<"(">>), [k \in {"p"} |-> "decodeEchoData"])}

RunnerCases == {[t EXCEPT !.Parallel = par] : t \in RunnerTemplates, par \in BOOLEAN}

\* the directory the model's locator finds binaries in, seen from the
\* working directory
locatedIn == "../apath/"

\* the program a binary path runs
program(bin) ==
    IF HasPrefix(bin, locatedIn) THEN SubSeq(bin, Len(locatedIn) + 1, Len(bin)) ELSE bin

\* cmd.Start(): the programs of the model are echo and false, any other
\* name is not found on the PATH
startErr(bin) ==
    IF program(bin) \in {"echo", "false"} THEN <<>>
    ELSE <<"exec: \"" \o bin \o "\": executable file not found in $PATH">>

\* the process once started and waited for: echo writes its arguments,
\* joined by spaces, and a newline to stdout and exits with status 0; false
\* writes nothing and exits with status 1; neither reads its standard input
runBinary(bin, args) ==
    IF program(bin) = "echo"
    THEN [stdout |-> Join(args, " ") \o "\n", stderr |-> "", err |-> <<>>]
    ELSE [stdout |-> "", stderr |-> "", err |-> <<"exit status 1">>]

\* cmd.Run(): Start, then Wait
cmdRun(bin, args) ==
    IF startErr(bin) # <<>>
    THEN [stdout |-> "", stderr |-> "", err |-> startErr(bin)]
    ELSE runBinary(bin, args)

\* cmd.Wait() after the lines have been written
cmdWait(bin, args) ==
    IF startErr(bin) # <<>>
    THEN [stdout |-> "", stderr |-> "", err |-> <<"exec: not started">>]
    ELSE runBinary(bin, args)

\* (err != nil) != wantErr, err being what cmd.Start() returned
startMismatch(serr, wantErr) == (serr # <<>>) # wantErr

\* what a read of a buffer gives while exec's goroutine that copies the
\* output of the child into it may still run, the read and the copy not
\* being ordered: the buffer still empty, or the output
unsyncReads(output) == {"", output}

\* the same for a read that follows one that gave seen
laterReads(seen, output) == {r \in unsyncReads(output) : Len(r) >= Len(seen)}

\* runCommand: without interactive lines, cmd.Run(); with them, the process
\* is started, a start outcome that differs from wantErr is reported with
\* t.Errorf and returned, otherwise the lines are written and cmd.Wait() is
\* returned. The outcomes of the call: stdout and stderr are what Ensure
\* reads in the buffers returned and bytes what stdout.Bytes() gives for the
\* callbacks; wrote: the lines were written to the pipe; waited: the process
\* was waited for. A process that was started and is not waited for is still
\* writing the buffers when they are read.
runCommand(bin, testN, args, interactive, wantErr) ==
    LET child == IF startErr(bin) = <<>> THEN runBinary(bin, args)
                 ELSE [stdout |-> "", stderr |-> "", err |-> startErr(bin)]
        synced(res) == res @@ [bytes |-> res.stdout, reports |-> <<>>, waited |-> TRUE]
        errorf(stderr) ==
            [fn |-> "Errorf",
             msgs |-> <<"[Test " \o ToString(testN) \o "][" \o failRed
                        \o "]: Command " \o bin \o " "
                        \o redactPasswordFlag(Join(args, " "))
                        \o " error = " \o ErrString(startErr(bin))
                        \o ", wantErr = " \o BoolString(wantErr)
                        \o ", stderr = " \o stderr>>]
    IN IF Len(interactive) = 0
       THEN {synced(cmdRun(bin, args) @@ [wrote |-> FALSE])}
       ELSE IF startMismatch(startErr(bin), wantErr)
       THEN UNION { UNION { UNION {
                {[stdout |-> o, stderr |-> e, bytes |-> b, err |-> startErr(bin),
                  reports |-> <<errorf(e0)>>, wrote |-> FALSE, waited |-> FALSE]
                    : b \in laterReads(o, child.stdout)}
                    : o \in unsyncReads(child.stdout)}
                    : e \in laterReads(e0, child.stderr)}
                    : e0 \in unsyncReads(child.stderr)}
       ELSE {synced(cmdWait(bin, args) @@ [wrote |-> TRUE])}

\* encoding/json, as json.Unmarshal uses it on the output of a command. The
\* texts of the model are ASCII: a character that has no text in the model
\* has no value here either.

\* F(x), x being evaluated once however often F uses it
WithValue(x, F(_)) == CHOOSE r \in {F(v) : v \in {x}} : TRUE

\* the printable ASCII characters in byte order: from the space (byte 32) to
\* the underscore (byte 95), and from a (byte 97) to the tilde (byte 126); the
\* grave accent (byte 96) has no text in the model
AsciiLow == " !\"#$%&'()*+,-./0123456789:;<=>?@ABCDEFGHIJKLMNOPQRSTUVWXYZ[\\]^_"
AsciiHigh == "abcdefghijklmnopqrstuvwxyz{|}~"
Upper == "ABCDEFGHIJKLMNOPQRSTUVWXYZ"
Lower == "abcdefghijklmnopqrstuvwxyz"
HexDigits == "0123456789abcdef"

\* the character of s at position p, the empty text past its end
at(s, p) == IF p >= 1 /\ p <= Len(s) THEN SubSeq(s, p, p) ELSE ""

\* the byte of a character
byteOf(c) ==
    IF c = "\t" THEN 9
    ELSE IF c = "\n" THEN 10
    ELSE IF c = "\f" THEN 12
    ELSE IF c = "\r" THEN 13
    ELSE IF Contains(AsciiLow, c) THEN Index(AsciiLow, c) + 31
    ELSE Index(AsciiHigh, c) + 96

\* the character of a byte
charOf(b) ==
    IF b = 9 THEN "\t"
    ELSE IF b = 10 THEN "\n"
    ELSE IF b = 12 THEN "\f"
    ELSE IF b = 13 THEN "\r"
    ELSE IF b >= 97 THEN CHOOSE c \in {at(AsciiHigh, b - 96)} : b <= 126
    ELSE CHOOSE c \in {at(AsciiLow, b - 31)} : b >= 32 /\ b <= 95

\* a < b for Go strings: at the first position where they differ a has
\* ended or holds the lesser byte
stringLess(a, b) ==
    \E p \in 1..Len(b) :
        /\ \A q \in 1..(p - 1) : at(a, q) = at(b, q)
        /\ \/ p > Len(a)
           \/ at(a, p) # at(b, p) /\ byteOf(at(a, p)) < byteOf(at(b, p))

\* sort.Strings of the strings of S
RECURSIVE sortStrings(_)
sortStrings(S) ==
    IF S = {} THEN <<>>
    ELSE LET m == CHOOSE x \in S : \A y \in S \ {x} : stringLess(x, y)
         IN <<m>> \o sortStrings(S \ {m})

toLower(c) == IF c # "" /\ Contains(Upper, c) THEN at(Lower, Index(Upper, c)) ELSE c

\* the match of an object key with a field name when they are not equal:
\* ASCII letters match whatever their case
equalFold(a, b) ==
    /\ Len(a) = Len(b)
    /\ \A p \in 1..Len(a) : toLower(at(a, p)) = toLower(at(b, p))

\* a decoded value: t is one of "null", "true", "false", "number", "string",
\* "array", "object"; s is the text of a string or the literal of a number;
\* keys and vals are the members of an object in the order of the document,
\* vals alone the elements of an array
jsonValue(t, s, keys, vals) == [t |-> t, s |-> s, keys |-> keys, vals |-> vals]
jsonNull == jsonValue("null", "", <<>>, <<>>)

\* quoteChar of the scanner
quoteChar(c) ==
    IF c = "'" THEN "'\\''"
    ELSE IF c = "\"" THEN "'\"'"
    ELSE IF c = "\\" THEN "'\\\\'"
    ELSE IF c = "\n" THEN "'\\n'"
    ELSE IF c = "\t" THEN "'\\t'"
    ELSE IF c = "\r" THEN "'\\r'"
    ELSE IF c = "\f" THEN "'\\f'"
    ELSE "'" \o c \o "'"

\* the states of the scanner, named by the context of their error, that take
\* a space: at the end of the input scanner.eof steps a space into the
\* state, and these do not reject it
TakesSpace ==
    {"looking for beginning of value", "looking for beginning of object key string",
     "in string literal", "after object key", "after object key:value pair",
     "after array element", "after top-level value"}

\* the SyntaxError of the scanner at position p: the character there cannot
\* follow; or the input has ended, in a state that rejects the space of
\* scanner.eof or in one that takes it
syntaxError(s, p, context) ==
    IF p <= Len(s) THEN "invalid character " \o quoteChar(at(s, p)) \o " " \o context
    ELSE IF context \in TakesSpace THEN "unexpected end of JSON input"
    ELSE "invalid character ' ' " \o context

scanFails(s, p, context) ==
    [err |-> <<syntaxError(s, p, context)>>, pos |-> p, v |-> jsonNull]
scanned(p, v) == [err |-> <<>>, pos |-> p, v |-> v]

isSpace(c) == c \in {" ", "\t", "\r", "\n"}
isDigit(c) == c # "" /\ Contains("0123456789", c)
hexValue(c) == IF c # "" /\ Contains(HexDigits, toLower(c))
               THEN Index(HexDigits, toLower(c)) - 1 ELSE -1

RECURSIVE skipSpace(_, _)
skipSpace(s, p) == IF isSpace(at(s, p)) THEN skipSpace(s, p + 1) ELSE p

RECURSIVE skipDigits(_, _)
skipDigits(s, p) == IF isDigit(at(s, p)) THEN skipDigits(s, p + 1) ELSE p

\* the first position from p on, of the four of a \u escape, that holds no
\* hexadecimal digit; 0 when all four do
badHex(s, p) ==
    IF \A q \in p..(p + 3) : hexValue(at(s, q)) >= 0 THEN 0
    ELSE CHOOSE q \in p..(p + 3) :
            /\ hexValue(at(s, q)) < 0
            /\ \A r \in p..(q - 1) : hexValue(at(s, r)) >= 0

\* the character of \uXXXX, XXXX at p
unicodeChar(s, p) ==
    charOf(((hexValue(at(s, p)) * 16 + hexValue(at(s, p + 1))) * 16
            + hexValue(at(s, p + 2))) * 16 + hexValue(at(s, p + 3)))

\* a string literal, p after its opening quote, acc the text read so far
RECURSIVE scanString(_, _, _)
scanString(s, p, acc) ==
    LET c == at(s, p)
        e == at(s, p + 1)
    IN IF c = "" \/ c \in {"\t", "\n", "\f", "\r"} THEN scanFails(s, p, "in string literal")
       ELSE IF c = "\"" THEN scanned(p + 1, jsonValue("string", acc, <<>>, <<>>))
       ELSE IF c # "\\" THEN scanString(s, p + 1, acc \o c)
       ELSE IF e \in {"\"", "\\", "/"} THEN scanString(s, p + 2, acc \o e)
       ELSE IF e = "n" THEN scanString(s, p + 2, acc \o "\n")
       ELSE IF e = "t" THEN scanString(s, p + 2, acc \o "\t")
       ELSE IF e = "r" THEN scanString(s, p + 2, acc \o "\r")
       ELSE IF e = "f" THEN scanString(s, p + 2, acc \o "\f")
       ELSE IF e = "u"
       THEN IF badHex(s, p + 2) # 0
            THEN scanFails(s, badHex(s, p + 2), "in \\u hexadecimal character escape")
            ELSE scanString(s, p + 6, acc \o unicodeChar(s, p + 2))
       ELSE IF e = "b" THEN scanString(s, p + 2, acc \o charOf(8))
       ELSE scanFails(s, p + 1, "in string escape code")

\* the exponent of a number, p after the digits of its integer or fraction
scanExponent(s, first, p) ==
    LET q == IF at(s, p + 1) \in {"+", "-"} THEN p + 2 ELSE p + 1 IN
    IF at(s, p) \notin {"e", "E"}
    THEN scanned(p, jsonValue("number", SubSeq(s, first, p - 1), <<>>, <<>>))
    ELSE IF ~isDigit(at(s, q)) THEN scanFails(s, q, "in exponent of numeric literal")
    ELSE scanned(skipDigits(s, q),
                 jsonValue("number", SubSeq(s, first, skipDigits(s, q) - 1), <<>>, <<>>))

\* a number, p at its first character
scanNumber(s, p) ==
    LET int == IF at(s, p) = "-" THEN p + 1 ELSE p
        frac == IF at(s, int) = "0" THEN int + 1 ELSE skipDigits(s, int)
    IN IF ~isDigit(at(s, int)) THEN scanFails(s, int, "in numeric literal")
       ELSE IF at(s, frac) # "." THEN scanExponent(s, p, frac)
       ELSE IF ~isDigit(at(s, frac + 1))
       THEN scanFails(s, frac + 1, "after decimal point in numeric literal")
       ELSE scanExponent(s, p, skipDigits(s, frac + 1))

\* the literal word (true, false, null), its first k - 1 characters read
RECURSIVE scanLiteral(_, _, _, _)
scanLiteral(s, p, word, k) ==
    IF k > Len(word) THEN scanned(p, jsonValue(word, "", <<>>, <<>>))
    ELSE IF at(s, p) = at(word, k) THEN scanLiteral(s, p + 1, word, k + 1)
    ELSE scanFails(s, p, "in literal " \o word \o " (expecting '" \o at(word, k) \o "')")

RECURSIVE scanValue(_, _)
RECURSIVE scanMembers(_, _, _, _)
RECURSIVE scanElements(_, _, _)

\* an object after the value of a member, end at what follows it
memberEnd(s, end, keys, vals) ==
    IF at(s, end) = "," THEN scanMembers(s, skipSpace(s, end + 1), keys, vals)
    ELSE IF at(s, end) = "}" THEN scanned(end + 1, jsonValue("object", "", keys, vals))
    ELSE scanFails(s, end, "after object key:value pair")

\* an object after the scan v of the value of the member of key key
afterMember(s, v, key, keys, vals) ==
    IF v.err # <<>> THEN v
    ELSE memberEnd(s, skipSpace(s, v.pos), Append(keys, key), Append(vals, v.v))

\* an object after the key of a member, colon at what follows it
keyEnd(s, key, colon, keys, vals) ==
    IF at(s, colon) # ":" THEN scanFails(s, colon, "after object key")
    ELSE WithValue(scanValue(s, colon + 1), LAMBDA v : afterMember(s, v, key, keys, vals))

\* an object after the scan k of the key of a member
afterKey(s, k, keys, vals) ==
    IF k.err # <<>> THEN k
    ELSE keyEnd(s, k.v.s, skipSpace(s, k.pos), keys, vals)

\* the members of an object from the key at p on, keys and vals those read
scanMembers(s, p, keys, vals) ==
    IF at(s, p) # "\"" THEN scanFails(s, p, "looking for beginning of object key string")
    ELSE WithValue(scanString(s, p + 1, ""), LAMBDA k : afterKey(s, k, keys, vals))

\* an array after an element, end at what follows it
elementEnd(s, end, vals) ==
    IF at(s, end) = "," THEN scanElements(s, end + 1, vals)
    ELSE IF at(s, end) = "]" THEN scanned(end + 1, jsonValue("array", "", <<>>, vals))
    ELSE scanFails(s, end, "after array element")

\* an array after the scan v of an element
afterElement(s, v, vals) ==
    IF v.err # <<>> THEN v
    ELSE elementEnd(s, skipSpace(s, v.pos), Append(vals, v.v))

\* the elements of an array from the one at p on, vals those read
scanElements(s, p, vals) ==
    WithValue(scanValue(s, p), LAMBDA v : afterElement(s, v, vals))

\* an object or an array, inner at what follows its opening character
scanObject(s, inner) ==
    IF at(s, inner) = "}" THEN scanned(inner + 1, jsonValue("object", "", <<>>, <<>>))
    ELSE scanMembers(s, inner, <<>>, <<>>)
scanArray(s, inner) ==
    IF at(s, inner) = "]" THEN scanned(inner + 1, jsonValue("array", "", <<>>, <<>>))
    ELSE scanElements(s, inner, <<>>)

\* a value, q at its first character
scanValueAt(s, q) ==
    IF at(s, q) = "{" THEN scanObject(s, skipSpace(s, q + 1))
    ELSE IF at(s, q) = "[" THEN scanArray(s, skipSpace(s, q + 1))
    ELSE IF at(s, q) = "\"" THEN scanString(s, q + 1, "")
    ELSE IF at(s, q) = "-" \/ isDigit(at(s, q)) THEN scanNumber(s, q)
    ELSE IF at(s, q) = "t" THEN scanLiteral(s, q + 1, "true", 2)
    ELSE IF at(s, q) = "f" THEN scanLiteral(s, q + 1, "false", 2)
    ELSE IF at(s, q) = "n" THEN scanLiteral(s, q + 1, "null", 2)
    ELSE scanFails(s, q, "looking for beginning of value")

\* a value, p at or before its first character
scanValue(s, p) == WithValue(skipSpace(s, p), LAMBDA q : scanValueAt(s, q))

\* the end of the document after its value v, end at what follows it
topLevelEnd(s, v, end) ==
    IF end <= Len(s) THEN scanFails(s, end, "after top-level value") ELSE v

\* the document after the scan v of its value
topLevel(s, v) == IF v.err # <<>> THEN v ELSE topLevelEnd(s, v, skipSpace(s, v.pos))

\* checkValid and the value of the document: one value, white space around it
jsonParse(s) == WithValue(scanValue(s, 1), LAMBDA v : topLevel(s, v))

\* the word of an UnmarshalTypeError for a value
valueKind(v) == IF v.t \in {"true", "false"} THEN "bool" ELSE v.t

\* the first position of s that holds a character of cs, one past the end
\* of s when none does
indexAny(s, cs) ==
    IF \E p \in 1..Len(s) : at(s, p) \in cs
    THEN CHOOSE p \in 1..Len(s) :
            at(s, p) \in cs /\ \A q \in 1..(p - 1) : at(s, q) \notin cs
    ELSE Len(s) + 1

RECURSIVE skipZeros(_, _)
skipZeros(s, p) == IF at(s, p) = "0" THEN skipZeros(s, p + 1) ELSE p

\* the last position of s up to p that holds another character than 0
RECURSIVE lastNonZero(_, _)
lastNonZero(s, p) == IF p = 0 \/ at(s, p) # "0" THEN p ELSE lastNonZero(s, p - 1)

\* the number the digits of s from p on stand for after acc; it is not
\* carried on past six digits, which is beyond every exponent of a float64
RECURSIVE decimal(_, _, _)
decimal(s, p, acc) ==
    IF p > Len(s) \/ acc >= 100000 THEN acc
    ELSE decimal(s, p + 1, acc * 10 + Index("0123456789", at(s, p)) - 1)

\* the exponent of a number, e the text after its e
exponentOf(e) ==
    IF at(e, 1) = "-" THEN 0 - decimal(e, 2, 0)
    ELSE IF at(e, 1) = "+" THEN decimal(e, 2, 0)
    ELSE decimal(e, 1, 0)

\* the digits of 2^1024 - 2^970, a number of 309 digits: the least number
\* that float64 rounds to infinity
MaxFloatDigits ==
    "179769313486231580793728971405303415079934132710037826936173778980444968292764750946649017977587207096330286416692887910946555547851940402630657488671505820681908902000708383676273854845817711531764475730270069855571366959622842914819860834936475292719074168444365510704342711559699508093042880177904174497792"

\* a number 0.sig * 10^point, sig without zeros at its ends, is too large
\* for a float64
tooLarge(sig, point) ==
    sig # "" /\ (point > 309 \/ (point = 309 /\ ~stringLess(sig, MaxFloatDigits)))

\* the same for the digits of the mantissa, the digits before its point
\* being whole many, and the exponent exp
digitsTooLarge(digits, whole, exp) ==
    tooLarge(SubSeq(digits, skipZeros(digits, 1), lastNonZero(digits, Len(digits))),
             whole - (skipZeros(digits, 1) - 1) + exp)

\* the same for the mantissa mant and the text e of the exponent
mantissaTooLarge(mant, e) ==
    digitsTooLarge(SubSeq(mant, 1, indexAny(mant, {"."}) - 1)
                       \o SubSeq(mant, indexAny(mant, {"."}) + 1, Len(mant)),
                   indexAny(mant, {"."}) - 1, exponentOf(e))

\* the same for a number without its sign
unsignedTooLarge(n) ==
    mantissaTooLarge(SubSeq(n, 1, indexAny(n, {"e", "E"}) - 1),
                     SubSeq(n, indexAny(n, {"e", "E"}) + 1, Len(n)))

\* convertNumber fails on the literal lit of a number: strconv.ParseFloat
\* tells that it is out of the range of a float64
outOfRange(lit) ==
    unsignedTooLarge(IF at(lit, 1) = "-" THEN SubSeq(lit, 2, Len(lit)) ELSE lit)

\* the literals of the numbers of the value v that convertNumber fails on,
\* in the order of the document
RECURSIVE rangeErrors(_)
RECURSIVE rangeErrorsFrom(_, _)
rangeErrorsFrom(vals, p) ==
    IF p > Len(vals) THEN <<>> ELSE rangeErrors(vals[p]) \o rangeErrorsFrom(vals, p + 1)
rangeErrors(v) ==
    IF v.t = "number" THEN (IF outOfRange(v.s) THEN <<v.s>> ELSE <<>>)
    ELSE rangeErrorsFrom(v.vals, 1)

\* the value of type interface{} a value is decoded to: a number that
\* convertNumber fails on leaves nil
RECURSIVE interfaceOf(_)
interfaceOf(v) ==
    IF v.t = "number" THEN (IF outOfRange(v.s) THEN jsonNull ELSE v)
    ELSE IF v.vals = <<>> THEN v
    ELSE [v EXCEPT !.vals = [p \in 1..Len(v.vals) |-> interfaceOf(v.vals[p])]]

\* a map[string]interface{}: nil, or made and holding entries, each key
\* mapped to its decoded value
nilMap == [isNil |-> TRUE, entries |-> [k \in {} |-> jsonNull]]
makeMap == [isNil |-> FALSE, entries |-> [k \in {} |-> jsonNull]]

\* echoTestData and its zero value
echoTestData(message, hrefs) == [Message |-> message, HRefs |-> hrefs]
NoData == echoTestData("", nilMap)

\* the field of echoTestData an object key stands for: the field of that
\* name, else the first field whose name matches whatever the case, else none
fieldOf(key) ==
    IF key \in {"message", "hrefs"} THEN key
    ELSE IF equalFold(key, "message") THEN "message"
    ELSE IF equalFold(key, "hrefs") THEN "hrefs"
    ELSE ""

\* the last value of key k among the members of the object v
member(v, k) ==
    v.vals[CHOOSE p \in 1..Len(v.keys) :
              v.keys[p] = k /\ \A q \in (p + 1)..Len(v.keys) : v.keys[q] # k]

\* the stores json.Unmarshal makes for the value v of a member of the field
\* field, one after the other: a string goes into Message; for an object the
\* map of HRefs is made if it is nil, and then every member is set in the map
\* in its turn, the entries the map has being kept; null leaves Message as it
\* is and makes HRefs nil; a value of another kind is not stored
fieldOps(field, v) ==
    IF field = "message" /\ v.t = "string"
    THEN <<[op |-> "message", key |-> "", v |-> v]>>
    ELSE IF field = "hrefs" /\ v.t = "null"
    THEN <<[op |-> "zero", key |-> "", v |-> v]>>
    ELSE IF field = "hrefs" /\ v.t = "object"
    THEN <<[op |-> "isNil", key |-> "", v |-> jsonNull]>>
         \o [p \in 1..Len(v.keys) |->
                [op |-> "setMapIndex", key |-> v.keys[p], v |-> interfaceOf(v.vals[p])]]
    ELSE <<>>

\* m after SetMapIndex of key k and value v
setMapIndex(m, k, v) ==
    [m EXCEPT !.entries = [j \in DOMAIN m.entries \cup {k} |->
                              IF j = k THEN v ELSE m.entries[j]]]

\* d after the store o, made by a caller that runs alone
storeOp(d, o) ==
    IF o.op = "message" THEN [d EXCEPT !.Message = o.v.s]
    ELSE IF o.op = "zero" THEN [d EXCEPT !.HRefs = nilMap]
    ELSE IF o.op = "isNil" THEN (IF d.HRefs.isNil THEN [d EXCEPT !.HRefs = makeMap] ELSE d)
    ELSE [d EXCEPT !.HRefs = setMapIndex(d.HRefs, o.key, o.v)]

\* d after the stores ops
RECURSIVE storeOps(_, _)
storeOps(d, ops) == IF ops = <<>> THEN d ELSE storeOps(storeOp(d, Head(ops)), Tail(ops))

\* d after the value v of a member has been stored into its field
storeField(d, field, v) == storeOps(d, fieldOps(field, v))

\* the UnmarshalTypeError of the first of the literals lits, those of an
\* object stored into HRefs that convertNumber fails on
rangeError(lits) ==
    IF lits = <<>> THEN <<>>
    ELSE <<"json: cannot unmarshal number " \o Head(lits)
           \o " into Go struct field echoTestData.hrefs of type float64">>

\* the UnmarshalTypeError of a member: it is not stored, or a number in it
\* is not converted; none otherwise
fieldError(field, v) ==
    IF field = "message" /\ v.t \notin {"string", "null"}
    THEN <<"json: cannot unmarshal " \o valueKind(v)
           \o " into Go struct field echoTestData.message of type string">>
    ELSE IF field = "hrefs" /\ v.t \notin {"object", "null"}
    THEN <<"json: cannot unmarshal " \o valueKind(v)
           \o " into Go struct field echoTestData.hrefs of type map[string]interface {}">>
    ELSE IF field = "hrefs" /\ v.t = "object" THEN rangeError(rangeErrors(v))
    ELSE <<>>

\* the members of the object v that stand for a field, from the p-th on: the
\* values json.Unmarshal stores, in the order of the document
RECURSIVE fieldWrites(_, _)
fieldWrites(v, p) ==
    IF p > Len(v.keys) THEN <<>>
    ELSE (IF fieldOf(v.keys[p]) = "" THEN <<>>
          ELSE <<[field |-> fieldOf(v.keys[p]), v |-> v.vals[p]]>>)
         \o fieldWrites(v, p + 1)

\* the first UnmarshalTypeError among the writes
RECURSIVE firstTypeError(_)
firstTypeError(writes) ==
    IF writes = <<>> THEN <<>>
    ELSE IF fieldError(Head(writes).field, Head(writes).v) # <<>>
    THEN fieldError(Head(writes).field, Head(writes).v)
    ELSE firstTypeError(Tail(writes))

\* what json.Unmarshal does with the parsed document doc for a target of
\* type echoTestData. err: the document is not valid, nothing is stored.
\* Otherwise writes: the members that stand for a field, each stored in its
\* turn; typeErr: the first UnmarshalTypeError, which is returned after all
\* the members have been gone through.
planOf(doc) ==
    IF doc.err # <<>> THEN [err |-> doc.err, writes |-> <<>>, typeErr |-> <<>>]
    ELSE IF doc.v.t = "null" THEN [err |-> <<>>, writes |-> <<>>, typeErr |-> <<>>]
    ELSE IF doc.v.t # "object"
    THEN [err |-> <<>>, writes |-> <<>>,
          typeErr |-> <<"json: cannot unmarshal " \o valueKind(doc.v)
                        \o " into Go value of type integration.echoTestData">>]
    ELSE [err |-> <<>>, writes |-> fieldWrites(doc.v, 1),
          typeErr |-> firstTypeError(fieldWrites(doc.v, 1))]

\* what json.Unmarshal(out, &d) does for a d of type echoTestData
unmarshalPlan(out) == WithValue(jsonParse(out), planOf)

\* d after the writes have been stored one after the other
RECURSIVE storeFields(_, _)
storeFields(d, writes) ==
    IF writes = <<>> THEN d
    ELSE storeFields(storeField(d, Head(writes).field, Head(writes).v), Tail(writes))

\* d after the plan has been carried out, and the error returned
unmarshalled(d, plan) ==
    [d |-> storeFields(d, plan.writes), err |-> plan.err \o plan.typeErr]

\* json.Unmarshal(out, &d) run on its own: d after the call, and its error
jsonUnmarshal(out, d) == WithValue(unmarshalPlan(out), LAMBDA plan : unmarshalled(d, plan))

\* strings.Join(keys, ", ") of the sorted keys of a map
sortedKeys(m) == Join(sortStrings(DOMAIN m), ", ")

\* decodeEchoData after the decoding u: testOutput.Message is stored under
\* the key, unless the decoding has failed
storeMessage(u, key, storage) ==
    [err |-> u.err, testOutput |-> u.d,
     storage |-> IF u.err # <<>> THEN storage ELSE MapSet(storage, key, u.d.Message)]

\* the callback decodeEchoData run on its own: the output is decoded into
\* testOutput, the variable the callbacks of a suite share (shared is what it
\* holds at the call), and the Message testOutput then holds is stored under
\* the key; on an error of the decoding nothing is stored
decodeEchoData(out, key, storage, shared) ==
    WithValue(jsonUnmarshal(out, shared), LAMBDA u : storeMessage(u, key, storage))

\* decodeEchoDataHrefKeys after the decoding u: the sorted keys of the HRefs,
\* joined by ", ", are stored under the key, unless the decoding has failed
storeHrefKeys(u, key, storage) ==
    [err |-> u.err,
     storage |-> IF u.err # <<>> THEN storage
                 ELSE MapSet(storage, key, sortedKeys(u.d.HRefs.entries))]

\* the callback decodeEchoDataHrefKeys: the output is decoded into a
\* variable of its own
decodeEchoDataHrefKeys(out, key, storage) ==
    WithValue(jsonUnmarshal(out, NoData), LAMBDA u : storeHrefKeys(u, key, storage))

\* callback(out, key, storage) in TestCallback.Run, run on its own, for the
\* callback of the suite that the case registers by the name kind
callback(kind, out, key, storage, shared) ==
    IF kind = "decodeEchoDataHrefKeys"
    THEN decodeEchoDataHrefKeys(out, key, storage) @@ [testOutput |-> shared]
    ELSE decodeEchoData(out, key, storage, shared)

\* defaultCooldownPeriod, in milliseconds
defaultCooldownPeriod == 100

\* the values of rand.Intn(9)+1
RandInts == 1..9

\* what executeTestCase waits between its start and the call of runCommand:
\* it has no wait
preRunDelay(tt) == 0

\* the cases whose WaitBeforeRun the sub-test function of case i may read
\* after executeTestCase has returned: tt is the variable of the loop, which
\* is one per iteration or, in builds before Go 1.22, one for the whole loop
\* and then holds the case the loop is at (the last one once it has ended)
loopVariable(i) == {i, IF loopi > Len(tests) THEN Len(tests) ELSE loopi}

\* defaultCooldownPeriod*time.Duration(rand.Intn(9)+1) + tt.WaitBeforeRun,
\* for the random integer n and the WaitBeforeRun read
cooldownPeriod(n, wait) == defaultCooldownPeriod * n + wait

\* wrote, waited, execErr: what runCommand did and returned; calls: the
\* callbacks invoked, each with its key and the output it was given;
\* decoding: the call of decodeEchoData that is under way, with its key, the
\* fields json.Unmarshal has still to store, the error it will return, and
\* the Message read for storage.Set once it has been read; sets: the calls
\* of storage.Set its callbacks have made, each with its key and value;
\* did: the steps the case has taken; delayed: what it waited before its
\* process was spawned; wait: the WaitBeforeRun that is part of the cooldown
\* it is waiting for
NoRun == [pc |-> "unstarted", binary |-> "", args |-> <<>>, stdout |-> "",
          pending |-> {}, ensureErr |-> <<>>, callbackErrs |-> <<>>, reports |-> <<>>,
          did |-> {}, delayed |-> 0, wait |-> 0,
          wrote |-> FALSE, waited |-> FALSE, execErr |-> <<>>, calls |-> <<>>,
          decoding |-> <<>>, sets |-> <<>>]

TestIds == DOMAIN tests

\* a sub-test has panicked: the panic ends the test binary, and with it
\* every other sub-test, so that no step is taken any more
Crashed == \E i \in TestIds : run[i].pc = "panic"

\* a sub-test that calls t.Parallel() whatever the case says
callsParallel_Always(tt) == TRUE

\* if tt.Parallel { t.Parallel() }
callsParallel(tt) == tt.Parallel

\* the sub-test function of case i is over: t.Run returns for a case that
\* did not call t.Parallel, and the loop goes to the next case
loopAfter(i) == IF callsParallel(tests[i]) THEN loopi ELSE loopi + 1

\* t.Run(tt.Name, ...): the sub-test starts and runs up to t.Parallel(), where
\* it pauses and t.Run returns, or goes on into the case
StartCase(i) ==
    /\ ~Crashed
    /\ loopi = i
    /\ run[i].pc = "unstarted"
    /\ IF callsParallel(tests[i])
       THEN /\ run' = [run EXCEPT ![i].pc = "paused"]
            /\ loopi' = loopi + 1
       ELSE /\ run' = [run EXCEPT ![i].pc = "resolve"]
            /\ UNCHANGED loopi
    /\ UNCHANGED <<tests, testOutput, released, storeVars, callVars, findVars>>

\* ExecuteTests has returned and so has the test function that called it:
\* the framework releases the paused sub-tests
ReleaseParallel ==
    /\ ~Crashed
    /\ loopi = Len(tests) + 1
    /\ ~released
    /\ released' = TRUE
    /\ UNCHANGED <<tests, testOutput, loopi, run, storeVars, callVars, findVars>>

\* a paused sub-test returns from t.Parallel()
ResumeCase(i) ==
    /\ ~Crashed
    /\ run[i].pc = "paused"
    /\ released
    /\ run' = [run EXCEPT ![i].pc = "resolve"]
    /\ UNCHANGED <<tests, testOutput, loopi, released, storeVars, callVars, findVars>>

\* t.Fatalf / t.Fatal: the failure is reported and the sub-test function is left
fatal(i, msg) ==
    /\ run' = [run EXCEPT ![i].pc = "aborted",
                          ![i].reports = Append(@, [fn |-> "Fatalf", msgs |-> <<msg>>])]
    /\ loopi' = loopAfter(i)

\* executeTestCase up to the call of runCommand: the dynamic arguments are
\* resolved from the store, the arguments are put together, the binary is
\* checked and, unless it has to be searched for, the process is spawned
ResolveCase(i) ==
    /\ ~Crashed
    /\ run[i].pc = "resolve"
    /\ LET tt == tests[i]
           dyn == parseDynamicArguments(tt.Args.DynamicArgs, db)
           args == tt.Args.Config \o tt.Args.Args \o dyn.args
       IN IF dyn.err # <<>>
          THEN fatal(i, "[Test " \o ToString(i - 1) \o "][" \o failRed \o "]: "
                        \o dyn.err[1])
          ELSE IF tt.Binary = ""
          THEN fatal(i, "[Test " \o ToString(i - 1) \o "][" \o failRed
                        \o "]: binary not set, please set a binary name")
          ELSE /\ run' = [run EXCEPT ![i].pc = IF tt.FindBinary THEN "find" ELSE "spawned",
                                     ![i].binary = tt.Binary,
                                     ![i].args = args,
                                     ![i].delayed = preRunDelay(tt),
                                     ![i].did = IF tt.FindBinary THEN @ ELSE @ \cup {"spawn"}]
               /\ UNCHANGED loopi
    /\ UNCHANGED <<tests, testOutput, released, storeVars, callVars, findVars>>

\* FindBinaryPath(".", binary): when the binary is in the tree above the
\* working directory the call returns its path and the process is spawned;
\* when it is not, the call goes on calling itself on the root directory and
\* never returns
LocateBinary(i) ==
    /\ ~Crashed
    /\ run[i].pc = "find"
    /\ \E found \in BOOLEAN :
          run' = IF found
                 THEN [run EXCEPT ![i].pc = "spawned",
                                  ![i].binary = joinParent("apath/" \o run[i].binary),
                                  ![i].did = @ \cup {"spawn"}]
                 ELSE [run EXCEPT ![i].pc = "searching"]
    /\ UNCHANGED <<tests, testOutput, loopi, released, storeVars, callVars, findVars>>

\* runCommand returns, in one of its outcomes, and Ensure judges the result;
\* stdout.Bytes() is taken for the callbacks
FinishCommand(i) ==
    /\ ~Crashed
    /\ run[i].pc = "spawned"
    /\ \E res \in runCommand(run[i].binary, i - 1, run[i].args,
                             tests[i].Args.Interactive, tests[i].Asserts.WantErr) :
       LET tt == tests[i]
           ens == Ensure(tt.Asserts, res.stdout, res.stderr, res.err, db,
                         redactPasswordFlag(Join(<<run[i].binary>> \o run[i].args, " ")))
       IN run' = [run EXCEPT ![i].pc = IF ens.panic THEN "panic" ELSE "callbacks",
                             ![i].did = @ \cup {"ensure"},
                             ![i].stdout = res.bytes,
                             ![i].wrote = res.wrote,
                             ![i].waited = res.waited,
                             ![i].execErr = res.err,
                             ![i].reports = @ \o res.reports,
                             ![i].ensureErr = ens.err,
                             ![i].pending = DOMAIN tt.Callbacks]
    /\ UNCHANGED <<tests, testOutput, loopi, released, storeVars, callVars, findVars>>

\* the callback of key k of case i has returned with the errors errs
returned(r, i, k, errs) ==
    [r EXCEPT ![i].decoding = <<>>,
              ![i].pending = @ \ {k},
              ![i].callbackErrs = @ \o errs]

\* the stores json.Unmarshal makes for the writes, one after the other
RECURSIVE opsOf(_)
opsOf(writes) ==
    IF writes = <<>> THEN <<>>
    ELSE fieldOps(Head(writes).field, Head(writes).v) \o opsOf(Tail(writes))

\* the call of decodeEchoData under key k, json.Unmarshal having checked the
\* document and stored nothing yet
decodingOf(k, plan) ==
    [key |-> k, ops |-> opsOf(plan.writes), typeErr |-> plan.typeErr,
     read |-> FALSE, message |-> ""]

\* the callback of key k of case i has called storage.Set(k, v) and returned
hasSet(r, i, k, v) ==
    [returned(r, i, k, <<>>) EXCEPT ![i].sets = Append(@, [key |-> k, value |-> v])]

\* the call of decodeEchoDataHrefKeys by case i, which has given own
callHrefKeys(r, i, k, own) ==
    /\ db' = own.storage
    /\ run' = IF own.err # <<>> THEN returned(r, i, k, own.err)
              ELSE hasSet(r, i, k, own.storage[k])
    /\ UNCHANGED testOutput

\* the call of decodeEchoData by case i, up to the end of the check of the
\* document by json.Unmarshal: on a document that is not valid it returns
callDecode(r, i, k, plan) ==
    /\ run' = IF plan.err # <<>> THEN returned(r, i, k, plan.err)
              ELSE [r EXCEPT ![i].decoding = <<decodingOf(k, plan)>>]
    /\ UNCHANGED <<db, testOutput>>

\* TestCallback.Run, one turn of its loop over the map: the callback of key
\* k is called with the output and the store. decodeEchoDataHrefKeys decodes
\* into a variable of its own and stores under the lock of the store: the
\* call is one step. decodeEchoData decodes into testOutput, which the
\* callbacks of the cases that run at the same time write and read without a
\* lock: this step goes up to the end of the check of the document, and
\* CallbackStep takes the call on from there, store by store.
RunCallback(i, k) ==
    /\ ~Crashed
    /\ run[i].pc = "callbacks"
    /\ run[i].decoding = <<>>
    /\ k \in run[i].pending
    /\ LET called == [run EXCEPT ![i].did = @ \cup {"callback"},
                                 ![i].calls = Append(@, [key |-> k, out |-> run[i].stdout])]
       IN IF tests[i].Callbacks[k] = "decodeEchoDataHrefKeys"
          THEN \E own \in {decodeEchoDataHrefKeys(run[i].stdout, k, db)} :
                  callHrefKeys(called, i, k, own)
          ELSE \E plan \in {unmarshalPlan(run[i].stdout)} :
                  callDecode(called, i, k, plan)
    /\ UNCHANGED <<tests, loopi, released, rwOwner, rwReaders, spc, sop, sres, slog,
                   nops, callVars, findVars>>

\* another case than i is about to set an entry in the map of testOutput
writesMapToo(i) ==
    \E j \in TestIds \ {i} :
        /\ run[j].pc = "callbacks"
        /\ run[j].decoding # <<>>
        /\ run[j].decoding[1].ops # <<>>
        /\ Head(run[j].decoding[1].ops).op = "setMapIndex"

\* the store o of json.Unmarshal in the call cb of case i, on testOutput as
\* the callbacks of the other cases have left it. The map of HRefs is made
\* in two steps, the test v.IsNil() and v.Set(reflect.MakeMap(t)). An entry
\* is set in the map the field holds by then: in a nil map that panics
\* (assignment to entry in nil map), and while another callback sets an
\* entry the runtime may end the program (concurrent map writes); there is
\* no recover, so either ends the test binary
storeStep(i, cb, o) ==
    LET next == [run EXCEPT ![i].decoding = <<[cb EXCEPT !.ops = Tail(@)]>>]
        make == [run EXCEPT ![i].decoding =
                    <<[cb EXCEPT !.ops = <<[o EXCEPT !.op = "makeMap"]>> \o Tail(@)]>>]
        crash == [run EXCEPT ![i].pc = "panic"]
    IN IF o.op = "isNil"
       THEN /\ run' = IF testOutput.HRefs.isNil THEN make ELSE next
            /\ UNCHANGED testOutput
       ELSE IF o.op = "makeMap"
       THEN /\ testOutput' = [testOutput EXCEPT !.HRefs = makeMap]
            /\ run' = next
       ELSE IF o.op = "setMapIndex" /\ testOutput.HRefs.isNil
       THEN /\ run' = crash
            /\ UNCHANGED testOutput
       ELSE \/ /\ testOutput' = storeOp(testOutput, o)
               /\ run' = next
            \/ /\ o.op = "setMapIndex"
               /\ writesMapToo(i)
               /\ run' = crash
               /\ UNCHANGED testOutput

\* the next step of the call of decodeEchoData in case i: json.Unmarshal
\* makes its next store into testOutput; or it returns an error, which the
\* callback returns; or testOutput.Message is read; or storage.Set stores
\* what was read under the key and the callback returns
CallbackStep(i) ==
    /\ ~Crashed
    /\ run[i].pc = "callbacks"
    /\ run[i].decoding # <<>>
    /\ LET cb == run[i].decoding[1] IN
       IF cb.ops # <<>>
       THEN /\ storeStep(i, cb, Head(cb.ops))
            /\ UNCHANGED db
       ELSE IF cb.typeErr # <<>>
       THEN /\ run' = returned(run, i, cb.key, cb.typeErr)
            /\ UNCHANGED <<db, testOutput>>
       ELSE IF ~cb.read
       THEN /\ run' = [run EXCEPT ![i].decoding =
                          <<[cb EXCEPT !.read = TRUE, !.message = testOutput.Message]>>]
            /\ UNCHANGED <<db, testOutput>>
       ELSE /\ db' = MapSet(db, cb.key, cb.message)
            /\ run' = hasSet(run, i, cb.key, cb.message)
            /\ UNCHANGED testOutput
    /\ UNCHANGED <<tests, loopi, released, rwOwner, rwReaders, spc, sop, sres, slog,
                   nops, callVars, findVars>>

\* the assertion error and the callback error are appended to merr, and a
\* non-empty merr is reported with t.Error; executeTestCase returns and the
\* sub-test function starts the cooldown
ReportCase(i) ==
    /\ ~Crashed
    /\ run[i].pc = "callbacks"
    /\ run[i].pending = {}
    /\ \E tt \in loopVariable(i) :
        LET merr == run[i].ensureErr \o NewPrefixedError("callback", run[i].callbackErrs)
        IN run' = [run EXCEPT ![i].pc = "cooldown",
                              ![i].wait = tests[tt].WaitBeforeRun,
                              ![i].reports =
                                  IF merr # <<>>
                                  THEN Append(@, [fn |-> "Error", msgs |-> merr])
                                  ELSE @]
    /\ UNCHANGED <<tests, testOutput, loopi, released, storeVars, callVars, findVars>>

\* the durations the cooldown of case i may last
cooldownPeriods(i) == {cooldownPeriod(n, run[i].wait) : n \in RandInts}

\* the cooldown is over and the sub-test function returns
Cooldown(i) ==
    /\ ~Crashed
    /\ run[i].pc = "cooldown"
    /\ run' = [run EXCEPT ![i].pc = "done", ![i].wait = 0]
    /\ loopi' = loopAfter(i)
    /\ UNCHANGED <<tests, testOutput, released, storeVars, callVars, findVars>>

\* the store is the singleton of the process: it is empty or holds what an
\* earlier suite left under the key
InitialStores == {NewSafeMap, [k \in {"m"} |-> "old"]}

Init ==
    /\ db \in InitialStores
    /\ rwOwner = 0
    /\ rwReaders = {}
    /\ spc = <<>>
    /\ sop = <<>>
    /\ sres = <<>>
    /\ slog = <<>>
    /\ nops = 0
    /\ CallIdle
    /\ FindIdle
    /\ tests \in [1..NCases -> Cases]
    /\ loopi = 1
    /\ released = FALSE
    /\ run = [i \in 1..NCases |-> NoRun]
    /\ testOutput = NoData

Next ==
    \/ ReleaseParallel
    \/ \E i \in TestIds :
        \/ StartCase(i)
        \/ ResumeCase(i)
        \/ ResolveCase(i)
        \/ LocateBinary(i)
        \/ FinishCommand(i)
        \/ \E k \in run[i].pending : RunCallback(i, k)
        \/ CallbackStep(i)
        \/ ReportCase(i)
        \/ Cooldown(i)

Spec == Init /\ [][Next]_vars

\* a suite of the runner cases, started with an empty store
InitRunner ==
    /\ StoreIdle
    /\ CallIdle
    /\ FindIdle
    /\ tests \in [1..NCases -> RunnerCases]
    /\ loopi = 1
    /\ released = FALSE
    /\ run = [i \in 1..NCases |-> NoRun]
    /\ testOutput = NoData

SpecRunner == InitRunner /\ [][Next]_vars

\* the same, every step that can be taken being taken in the end
SpecRunnerFair == InitRunner /\ [][Next]_vars /\ WF_vars(Next)

----------------------------------------------------------------------------
(* runCommand, step by step (execution.go)                                 *)
(*                                                                         *)
(* call holds the arguments and the kind of child process, ret the frame   *)
(* of the call: its position, the stdin pipe, the child, and the steps     *)
(* taken. The child either ignores its standard input, or reads one line   *)
(* and exits, or reads until end-of-file and exits; it exits with the      *)
(* status call.exit.                                                       *)

Children == {"ignores stdin", "reads a line", "reads to end-of-file"}
ExitCodes == {0, 1}

\* the error of cmd.Wait() for a child that has exited: nil for status 0, an
\* *exec.ExitError otherwise
exitError(code) == IF code = 0 THEN <<>> ELSE <<"exit status " \o ToString(code)>>
InteractiveLines == UNION {[1..n -> {"y", "n"}] : n \in 0..MaxLines}

\* fmt.Sprintln(line)
Sprintln(line) == line \o "\n"

InitCommand ==
    /\ StoreIdle
    /\ FindIdle
    /\ OrchIdle
    /\ \E lines \in InteractiveLines, wantErr \in BOOLEAN, child \in Children,
          starts \in BOOLEAN, exit \in ExitCodes :
          call = [fn |-> "runCommand", interactive |-> lines, wantErr |-> wantErr,
                  child |-> child, starts |-> starts, exit |-> exit]
    /\ ret = [fn |-> "runCommand", pc |-> "entry", pipe |-> "none", buffer |-> <<>>,
              child |-> "not started", read |-> <<>>, eof |-> FALSE, next |-> 1,
              err |-> <<>>, reports |-> <<>>, steps |-> <<>>]

\* len(interactive) == 0: cmd.Run() is called; otherwise cmd.StdinPipe() opens
\* the pipe and its Close is deferred
CommandEntry ==
    /\ call.fn = "runCommand"
    /\ ret.pc = "entry"
    /\ ret' = IF Len(call.interactive) = 0
              THEN [ret EXCEPT !.pc = "run"]
              ELSE [ret EXCEPT !.pc = "start", !.pipe = "open",
                               !.steps = Append(@, "open pipe")]
    /\ UNCHANGED <<call, storeVars, findVars, orchVars>>

\* cmd.Run() without a pipe: the standard input of the child is the null
\* device; Run starts the child and waits for it
CommandRun ==
    /\ call.fn = "runCommand"
    /\ ret.pc = "run"
    /\ ret' = IF call.starts
              THEN [ret EXCEPT !.pc = "wait", !.child = "running", !.eof = TRUE,
                               !.steps = Append(@, "start")]
              ELSE [ret EXCEPT !.pc = "returned", !.err = <<"exec: not found">>,
                               !.steps = Append(@, "start")]
    /\ UNCHANGED <<call, storeVars, findVars, orchVars>>

\* cmd.Start(), and the test of its error against wantErr: a difference is
\* reported with t.Errorf and the function returns
CommandStart ==
    /\ call.fn = "runCommand"
    /\ ret.pc = "start"
    /\ LET serr == IF call.starts THEN <<>> ELSE <<"exec: not found">> IN
       ret' = [ret EXCEPT !.child = IF call.starts THEN "running" ELSE @,
                          !.steps = Append(@, "start"),
                          !.err = serr,
                          !.reports = IF startMismatch(serr, call.wantErr)
                                      THEN Append(@, "Errorf") ELSE @,
                          !.pc = IF startMismatch(serr, call.wantErr)
                                 THEN "close" ELSE "write"]
    /\ UNCHANGED <<call, storeVars, findVars, orchVars>>

\* one turn of the loop over interactive: the line is written to the pipe
\* (the error of the write is dropped); after the last line cmd.Wait() is
\* called
CommandWrite ==
    /\ call.fn = "runCommand"
    /\ ret.pc = "write"
    /\ ret' = IF ret.next <= Len(call.interactive)
              THEN [ret EXCEPT !.buffer = IF ret.child = "not started" THEN @
                                          ELSE Append(@, Sprintln(call.interactive[ret.next])),
                               !.next = @ + 1,
                               !.steps = Append(@, "write")]
              ELSE [ret EXCEPT !.pc = "wait", !.steps = Append(@, "wait")]
    /\ UNCHANGED <<call, storeVars, findVars, orchVars>>

\* the child takes a line from its standard input, or sees end-of-file once
\* the pipe is closed and empty
ChildReads ==
    /\ call.fn = "runCommand"
    /\ ret.child = "running"
    /\ call.child # "ignores stdin"
    /\ ~ret.eof
    /\ \/ /\ ret.buffer # <<>>
          /\ ret' = [ret EXCEPT !.buffer = Tail(@), !.read = Append(@, Head(ret.buffer))]
       \/ /\ ret.buffer = <<>>
          /\ ret.pipe = "closed"
          /\ ret' = [ret EXCEPT !.eof = TRUE]
    /\ UNCHANGED <<call, storeVars, findVars, orchVars>>

\* the child exits: at any time if it ignores its input, after a line or
\* end-of-file if it reads one line, after end-of-file if it reads them all
ChildExits ==
    /\ call.fn = "runCommand"
    /\ ret.child = "running"
    /\ \/ call.child = "ignores stdin"
       \/ call.child = "reads a line" /\ (ret.read # <<>> \/ ret.eof)
       \/ call.child = "reads to end-of-file" /\ ret.eof
    /\ ret' = [ret EXCEPT !.child = "exited"]
    /\ UNCHANGED <<call, storeVars, findVars, orchVars>>

\* cmd.Wait() returns: at once with an error when the command was not
\* started, else when the child has exited, with the error of its exit
\* status; its value is returned, which runs the deferred Close of the pipe
CommandWait ==
    /\ call.fn = "runCommand"
    /\ ret.pc = "wait"
    /\ ret.child # "running"
    /\ ret' = [ret EXCEPT !.pc = IF ret.pipe = "open" THEN "close" ELSE "returned",
                          !.err = IF ret.child = "not started"
                                  THEN <<"exec: not started">> ELSE exitError(call.exit)]
    /\ UNCHANGED <<call, storeVars, findVars, orchVars>>

\* defer stdin.Close(), run as the function returns
CommandClose ==
    /\ call.fn = "runCommand"
    /\ ret.pc = "close"
    /\ ret' = [ret EXCEPT !.pc = "returned", !.pipe = "closed",
                          !.steps = Append(@, "close pipe")]
    /\ UNCHANGED <<call, storeVars, findVars, orchVars>>

NextCommand ==
    \/ CommandEntry
    \/ CommandRun
    \/ CommandStart
    \/ CommandWrite
    \/ ChildReads
    \/ ChildExits
    \/ CommandWait
    \/ CommandClose

\* every step that can be taken is taken in the end
SpecCommand == InitCommand /\ [][NextCommand]_vars /\ WF_vars(NextCommand)

----------------------------------------------------------------------------
(* Claims about the store.                                                 *)

\* the value of the most recent Set of k in the history, as Get reports it
LastSet(log, k) ==
    LET idx == {i \in 1..Len(log) : log[i][1] = k} IN
    IF idx = {} THEN [v |-> "", ok |-> FALSE]
    ELSE [v |-> log[CHOOSE i \in idx : \A j \in idx : j <= i][2], ok |-> TRUE]

\* C1: after any sequence of Set calls, reading k from the map gives (v, true)
\* for the v of the most recent Set(k, v) and ("", false) for a key never set,
\* so a Set changes the mapping of its own key only; and what a Get has read,
\* while it still holds the read lock, is the value of that most recent Set.
C1_GetReturnsLastSet ==
    /\ \A k \in Keys : MapGet(db, k) = LastSet(slog, k)
    /\ \A p \in Goroutines :
          spc[p] = "runlock" => sres[p] = LastSet(slog, sop[p].k)

\* a Get has read a key that was set twice, with different values, while the
\* other key was never set
C1_Witness ==
    \E p \in Goroutines :
        /\ spc[p] = "runlock"
        /\ Len(slog) = 2
        /\ slog[1][1] = sop[p].k /\ slog[2][1] = sop[p].k
        /\ slog[1][2] # slog[2][2]
        /\ sres[p] = [v |-> slog[2][2], ok |-> TRUE]
        /\ \E k \in Keys : MapGet(db, k) = [v |-> "", ok |-> FALSE]

C2_NoLostWrite ==
    \A p \in Getters \cap Goroutines :
        spc[p] \in {"runlock", "ret"} => sres[p] = [v |-> sop[p - NConc].v, ok |-> TRUE]

C2_Exclusion ==
    \A p \in Goroutines :
        (spc[p] = "locked" /\ sop[p].op = "Set") =>
            \A q \in Goroutines \ {p} : ~InLockedSection(q)

C2_AllReturned ==
    /\ \A p \in Goroutines : spc[p] = "ret"
    /\ rwOwner = 0
    /\ rwReaders = {}

\* C2: under every interleaving of NConc concurrent Set calls with distinct
\* keys followed by NConc concurrent Get calls, every Get returns the value
\* written for its key, no Set is at its map write while another call is
\* inside its locked section, and eventually every call has returned with
\* the lock released.
C2_ConcurrentSetGet ==
    /\ [](C2_NoLostWrite /\ C2_Exclusion)
    /\ <>C2_AllReturned

\* all the calls have returned, each Get with the value written for its key,
\* and two different values were written
C2_Witness ==
    /\ C2_AllReturned
    /\ Getters \subseteq Goroutines
    /\ \A p \in Getters : sres[p] = [v |-> sop[p - NConc].v, ok |-> TRUE]
    /\ \E p, q \in Getters : sres[p].v # sres[q].v

----------------------------------------------------------------------------
(* Claims about parseDynamicArguments.                                     *)

\* a token that is passed through: it starts with "-" or with "strip_"
C3_PassThrough(tok) ==
    \/ Len(tok) >= 1 /\ SubSeq(tok, 1, 1) = "-"
    \/ Len(tok) >= 6 /\ SubSeq(tok, 1, 6) = "strip_"

\* the token without its leading "strip_"
C3_Literal(tok) ==
    IF Len(tok) >= 6 /\ SubSeq(tok, 1, 6) = "strip_" THEN SubSeq(tok, 7, Len(tok)) ELSE tok

\* the positions of the tokens that are looked up and are not in the store
C3_Missing ==
    {i \in 1..Len(call.dynamicArgs) :
        /\ ~C3_PassThrough(call.dynamicArgs[i])
        /\ call.dynamicArgs[i] \notin DOMAIN call.storage}

\* C3: parseDynamicArguments never passes a token starting with "-" or
\* "strip_" to the store; when no other token is missing from the store it
\* returns no error and, at the position of each such token, the token itself
\* without its leading "strip_", even when the store holds a value under the
\* token; when another token is missing from the store it returns an error
\* naming the first missing token and no resolved arguments.
C3_PrefixedLiteralMissingError ==
    ret.fn = "parseDynamicArguments" =>
        LET t == call.dynamicArgs IN
        /\ \A j \in 1..Len(ret.lookups) : ~C3_PassThrough(ret.lookups[j])
        /\ C3_Missing = {} =>
              /\ ret.err = <<>>
              /\ Len(ret.args) = Len(t)
              /\ \A i \in 1..Len(t) :
                    C3_PassThrough(t[i]) => ret.args[i] = C3_Literal(t[i])
        /\ C3_Missing # {} =>
              LET first == CHOOSE i \in C3_Missing : \A j \in C3_Missing : i <= j IN
              /\ ret.err = <<"failed to obtain value of key " \o t[first]>>
              /\ ret.args = <<>>

\* a "strip_" token the store holds a value under was resolved to its literal
\* next to a token resolved from the store
C3_Witness ==
    /\ ret.fn = "parseDynamicArguments"
    /\ call.dynamicArgs = <<"akey", "strip_akey">>
    /\ "strip_akey" \in DOMAIN call.storage
    /\ ret.args = <<"akey=value", "akey">>
    /\ ret.err = <<>>

----------------------------------------------------------------------------
(* Claims about the assertion evaluator.                                   *)

\* C4: with Must.Strict set, the must-output check returns no error if and
\* only if stdout is equal to every string of Must.Output; containing the
\* string is not enough.
C4_StrictIsEquality ==
    (ret.fn = "assertWanted" /\ call.w.Strict) =>
        ((ret.err = <<>>) <=>
            \A i \in 1..Len(call.w.Output) : call.out = call.w.Output[i])

\* the strict check has failed for an output that contains the wanted string
\* without being equal to it
C4_Witness ==
    /\ ret.fn = "assertWanted"
    /\ call.w.Strict
    /\ call.w.Output = <<"A\n">>
    /\ call.out = "A\n\n"
    /\ ret.err # <<>>

\* C5: whenever stderr contains one of the CanErrorWithMessage strings, Ensure
\* returns nil without calling any of the must / must-not checks, whatever the
\* exit error, WantErr, CanError and the Must / Not rules are.
C5_KnownFailureShortCircuit ==
    (/\ ret.fn = "Ensure"
     /\ \E i \in 1..Len(call.a.CanErrorWithMessage) :
            \E j \in 0..Len(call.stderr) : \E l \in j..Len(call.stderr) :
                SubSeq(call.stderr, j + 1, l) = call.a.CanErrorWithMessage[i])
    => (ret.err = <<>> /\ ~ret.panic /\ ret.checks = <<>>)

\* Ensure has returned nil on a known failure listed second, for a command
\* that failed unexpectedly and whose must and must-not rules are violated
C5_Witness ==
    /\ ret.fn = "Ensure"
    /\ call.a.CanErrorWithMessage = <<"nope", "boom">>
    /\ call.stderr = "boom"
    /\ call.err # <<>> /\ ~call.a.WantErr /\ ~call.a.CanError
    /\ call.stdout = "A\n" /\ call.a.Must.Output = <<"B">>
    /\ call.a.Must.Pattern = <<"(", "A">>
    /\ call.a.Not.Errors = <<"boom">>
    /\ ret.err = <<>> /\ ~ret.panic

\* the exit status differs from what WantErr expects
C10_Mismatch == (call.err # <<>>) # call.a.WantErr

\* C10: Ensure returns an error before calling any must / must-not check
\* exactly when (execErr != nil) differs from WantErr, CanError is false and
\* CanErrorWithMessage is empty; when the exit status matches WantErr or
\* CanError is set, no error Ensure returns is the exit-status error.
C10_ExitCheck ==
    ret.fn = "Ensure" =>
        /\ (ret.err # <<>> /\ ret.checks = <<>>)
             <=> (/\ C10_Mismatch
                  /\ ~call.a.CanError
                  /\ call.a.CanErrorWithMessage = <<>>)
        /\ (~C10_Mismatch \/ call.a.CanError) =>
              \A i \in 1..Len(ret.err) : ~HasPrefix(ret.err[i], "command: ")

\* Ensure has failed on the exit status alone, for a command that exited
\* non-zero against WantErr = false, before a pattern check that would not
\* have returned
C10_Witness ==
    /\ ret.fn = "Ensure"
    /\ call.err = <<"exit status 1">> /\ ~call.a.WantErr
    /\ ~call.a.CanError /\ call.a.CanErrorWithMessage = <<>>
    /\ call.a.Must.Pattern = <<"(", "A">>
    /\ call.stderr = "boom"
    /\ ret.err = <<"command: \"ls -1\"\nerror = exit status 1, wantErr = false, stderr = boom">>
    /\ ret.checks = <<>>

----------------------------------------------------------------------------
(* Claims about redactPasswordFlag.                                        *)

\* the rendering the claim describes, token by token: a "--pass" token and
\* the value token after it, or a "--pass=<value>" token, become
\* "--pass [REDACTED]"; every other token stays as it is
RECURSIVE C7_Rendered(_)
C7_Rendered(tokens) ==
    IF tokens = <<>> THEN <<>>
    ELSE IF Head(tokens) = "--pass" /\ Len(tokens) >= 2
    THEN <<"--pass [REDACTED]">> \o C7_Rendered(Tail(Tail(tokens)))
    ELSE IF Len(Head(tokens)) > 7 /\ SubSeq(Head(tokens), 1, 7) = "--pass="
    THEN <<"--pass [REDACTED]">> \o C7_Rendered(Tail(tokens))
    ELSE <<Head(tokens)>> \o C7_Rendered(Tail(tokens))

\* C7: for a command line built by joining argument tokens with single
\* spaces, redactPasswordFlag renders each "--pass <value>" token pair and
\* each "--pass=<value>" token as "--pass [REDACTED]", leaving no part of the
\* value, and leaves every other token unchanged.
C7_RedactsEveryPassValue ==
    ret.fn = "redactPasswordFlag" =>
        ret.out = Join(C7_Rendered(call.tokens), " ")

----------------------------------------------------------------------------
(* Claims about FindBinaryPath.                                            *)

\* dir is d or a directory above d
C8_IsPrefix(dir, d) == Len(dir) <= Len(d) /\ SubSeq(d, 1, Len(dir)) = dir

\* the number of levels above the starting directory of the nearest
\* directory whose subtree holds the file of directory d
C8_Levels(d) ==
    CHOOSE n \in 0..Len(fs.start) :
        /\ C8_IsPrefix(SubSeq(fs.start, 1, Len(fs.start) - n), d)
        /\ \A m \in 0..(n - 1) : ~C8_IsPrefix(SubSeq(fs.start, 1, Len(fs.start) - m), d)

\* the directory a relative path leads to from the starting directory
RECURSIVE C8_Resolve(_, _)
C8_Resolve(dir, rel) ==
    IF rel = <<>> THEN dir
    ELSE IF Head(rel) = ".." THEN C8_Resolve(SubSeq(dir, 1, Len(dir) - 1), Tail(rel))
    ELSE C8_Resolve(Append(dir, Head(rel)), Tail(rel))

\* C8: when exactly one regular file has the requested name, FindBinaryPath
\* returns without error the path that has one ".." for each level it
\* ascended from the starting directory, followed by the path of the file
\* below the directory reached; from the starting directory that path
\* resolves to the file.
C8_FindsTheOnlyFile ==
    (find.pc = "done" /\ Cardinality(fs.files) = 1) =>
        LET d == CHOOSE x \in fs.files : TRUE
            n == C8_Levels(d)
            rel == [i \in 1..n |-> ".."]
                   \o SubSeq(Append(d, binaryName), Len(fs.start) - n + 1, Len(d) + 1)
        IN /\ find.err = <<>>
           /\ find.binaryPath = Join(rel, "/")
           /\ C8_Resolve(fs.start, rel) = Append(d, binaryName)

\* from /a/w the only file, /a/apath/bin, was found as "../apath/bin"
C8_Witness ==
    /\ find.pc = "done"
    /\ fs.start = <<"a", "w">>
    /\ fs.files = {<<"a", "apath">>}
    /\ find.binaryPath = "../apath/bin"

\* C9: when no regular file with the requested name exists from the starting
\* directory up to the root, the recursion stops once the root has been
\* searched: the call has returned, with a not-found error.
C9_StopsAtRoot ==
    find.pc # "none" /\ find.rootMisses > 0 =>
        find.pc = "done" /\ find.err # <<>>

----------------------------------------------------------------------------
(* Claims about the propagation of stored values between cases.            *)

\* case a, when it runs, stores a value under key k: it has a binary, its
\* arguments do not depend on the store, and its callback of key k accepts
\* the output (whether it does is the same whatever testOutput holds)
StoresUnder(a, k) ==
    /\ tests[a].Binary # ""
    /\ tests[a].Args.DynamicArgs = <<>>
    /\ k \in DOMAIN tests[a].Callbacks
    /\ callback(tests[a].Callbacks[k],
                runBinary(tests[a].Binary,
                          tests[a].Args.Config \o tests[a].Args.Args).stdout,
                k, NewSafeMap, NoData).err = <<>>

\* the value the callback of case a has stored under key k
StoredValue(a, k) ==
    run[a].sets[CHOOSE c \in 1..Len(run[a].sets) :
                    /\ run[a].sets[c].key = k
                    /\ \A d \in (c + 1)..Len(run[a].sets) : run[a].sets[d].key # k].value

\* the callback storage key k belongs to case a alone
UniqueKey(a, k) == \A c \in TestIds \ {a} : k \notin DOMAIN tests[c].Callbacks

\* case b takes the value of key k as a dynamic argument
Consumes(b, k) ==
    /\ tests[b].Binary # ""
    /\ \E j \in DOMAIN tests[b].Args.DynamicArgs : tests[b].Args.DynamicArgs[j] = k

\* case b is past the resolution of its dynamic arguments
Resolved(b) == run[b].pc \notin {"unstarted", "paused", "resolve"}

\* the callbacks of case a have all run
CallbacksCompleted(a) ==
    /\ run[a].pc \in {"callbacks", "cooldown", "done"}
    /\ run[a].pending = {}

\* the process of case b has the value v wherever its dynamic arguments name k
SpawnedWith(b, k, v) ==
    /\ run[b].pc # "aborted"
    /\ \A j \in DOMAIN tests[b].Args.DynamicArgs :
           tests[b].Args.DynamicArgs[j] = k =>
               run[b].args[Len(tests[b].Args.Config) + Len(tests[b].Args.Args) + j] = v

Propagates(a, b, k) ==
    (Consumes(b, k) /\ Resolved(b) /\ UniqueKey(a, k) /\ StoresUnder(a, k))
        => (CallbacksCompleted(a) /\ SpawnedWith(b, k, StoredValue(a, k)))

\* C6, as stated: for cases A before B of one ExecuteTests call, where A's
\* callback stores v under a key k of its own and B's DynamicArgs contains k,
\* B resolves its dynamic arguments after A's callbacks have completed and
\* its process is spawned with v in the position of k, whatever the Parallel
\* flags of A and B.  The code does not do this when A is parallel: A pauses
\* at t.Parallel() and a sequential B, or a parallel B that resumes first,
\* resolves k before A has stored it.
C6_AnyFlags ==
    \A a \in TestIds : \A b \in TestIds : \A k \in {"m"} :
        a < b => Propagates(a, b, k)

\* C6, amended: the same, provided A is not marked Parallel; it holds for
\* both values of the Parallel flag of B.
C6_SequentialProducer ==
    \A a \in TestIds : \A b \in TestIds : \A k \in {"m"} :
        (a < b /\ ~tests[a].Parallel) => Propagates(a, b, k)

\* a sequential case has stored "X" under its own key and a parallel case
\* declared after it has run to its end with "X" as its argument
C6_Witness ==
    \E a \in TestIds : \E b \in TestIds :
        /\ a < b
        /\ ~tests[a].Parallel
        /\ tests[b].Parallel
        /\ StoresUnder(a, "m") /\ UniqueKey(a, "m") /\ Consumes(b, "m")
        /\ run[b].pc = "done"
        /\ run[b].args = <<"X">>
        /\ run[b].reports = <<>>

----------------------------------------------------------------------------
(* Claims about setup errors, failure reports and delays of a case.        *)

\* case i has hit a setup error: it was left by t.Fatalf on a missing key or
\* an empty Binary, or its locator did not find the binary
SetupError(i) == run[i].pc \in {"aborted", "searching"}

\* case i has spawned no process and run neither Ensure nor a callback, and
\* the store holds nothing under its callback keys unless another case with
\* that key has run its callbacks
NothingRan(i) ==
    /\ run[i].did = {}
    /\ \A k \in DOMAIN tests[i].Callbacks :
           k \in DOMAIN db =>
               \E j \in TestIds \ {i} :
                   k \in DOMAIN tests[j].Callbacks /\ "callback" \in run[j].did

\* every case other than i has been executed
OthersExecuted(i) == \A j \in TestIds \ {i} : run[j].pc \notin {"unstarted", "paused"}

\* C11: a case that hits a setup error (missing dynamic-argument key, empty
\* Binary, locator error) is aborted at once: no process is spawned, neither
\* Ensure nor a callback of it runs, the store is left unchanged by it, and
\* every other case of the list is still executed.  The first three hold;
\* the last does not for a locator that does not find the binary, because
\* FindBinaryPath then never returns and the cases after it never start.
C11_SetupErrorAbortsOnlyThatCase ==
    \A i \in 1..NCases :
        [](SetupError(i) => (NothingRan(i) /\ <>OthersExecuted(i)))

\* the failure reports of case i that do not end it: t.Errorf and t.Error
ErrorReports(i) == SelectSeq(run[i].reports, LAMBDA r : r.fn \in {"Errorf", "Error"})

\* C12: every case reports at most one failure to the host test handle, on
\* every path, the interactive path with a start outcome that differs from
\* WantErr included, and that report holds the assertion and the callback
\* errors.  The code reports twice on that path: runCommand calls t.Errorf
\* and returns, and executeTestCase then reports the error of Ensure.
C12_AtMostOneReport ==
    \A i \in TestIds :
        /\ Len(run[i].reports) <= 1
        /\ run[i].pc \in {"cooldown", "done"} /\ Len(ErrorReports(i)) = 1 =>
               ErrorReports(i)[1].msgs =
                   run[i].ensureErr \o NewPrefixedError("callback", run[i].callbackErrs)

\* case i wants an error and its process starts and exits with a non-zero
\* status
FailsAsWanted(i) ==
    /\ tests[i].Asserts.WantErr
    /\ startErr(run[i].binary) = <<>>
    /\ runBinary(run[i].binary, run[i].args).err # <<>>

\* C13: WantErr means a non-zero exit status after the command has run: a
\* case with WantErr whose process starts and exits non-zero passes the
\* exit check, without and with Interactive lines; with them the runner
\* writes the lines, waits for the process, returns its wait error and
\* reports nothing itself.  With Interactive lines the code holds WantErr
\* against the outcome of cmd.Start(): the start succeeded, so it reports
\* with t.Errorf and returns without writing or waiting.
C13_WantErrIsExitStatus ==
    \A i \in TestIds :
        ("ensure" \in run[i].did /\ FailsAsWanted(i)) =>
            /\ ~exitMismatch(tests[i].Asserts, run[i].execErr)
            /\ run[i].waited
            /\ run[i].execErr = runBinary(run[i].binary, run[i].args).err
            /\ Len(tests[i].Args.Interactive) > 0 => run[i].wrote
            /\ \A r \in 1..Len(run[i].reports) : run[i].reports[r].fn # "Errorf"

\* case j has begun executing
Begun(j) == run[j].pc \notin {"unstarted", "paused"}

\* C14: after every case, passed, failed or aborted, sequential or parallel,
\* a cooldown of 100ms times a random integer plus that case's own
\* WaitBeforeRun elapses before the next declared case begins executing.
\* The code skips the cooldown of a case left by t.Fatalf, lets the cases
\* after a parallel case begin while it is paused, and in builds with one
\* loop variable adds the WaitBeforeRun of the last case to the cooldown of
\* a parallel case.
C14_CooldownBeforeNextCase ==
    \A i \in TestIds :
        /\ run[i].pc = "cooldown" =>
               cooldownPeriods(i) =
                   {cooldownPeriod(n, tests[i].WaitBeforeRun) : n \in RandInts}
        /\ (i < Len(tests) /\ Begun(i + 1)) => run[i].pc = "done"

\* C18: WaitBeforeRun is a delay before the execution: for a case with
\* WaitBeforeRun = d > 0, at least d elapses between the start of the case
\* and the spawning of its process.  The code waits nowhere before
\* runCommand; it adds WaitBeforeRun to the cooldown after the case.
C18_WaitsBeforeRun ==
    \A i \in TestIds :
        ("spawn" \in run[i].did /\ tests[i].WaitBeforeRun > 0) =>
            run[i].delayed >= tests[i].WaitBeforeRun

----------------------------------------------------------------------------
(* Claims about the walk of FindBinaryPath.                                *)

\* the paths of the subtree of a directory in the order filepath.Walk meets
\* them: the path itself, then its entries in lexical order, each followed
\* by its own subtree
RECURSIVE C15_Visit(_, _, _)
RECURSIVE C15_VisitEntries(_, _)
C15_Visit(path, isDir, files) ==
    <<[path |-> path, isDir |-> isDir]>>
    \o (IF isDir THEN C15_VisitEntries(dirEntries(path, files), files) ELSE <<>>)

C15_VisitEntries(entries, files) ==
    IF entries = <<>> THEN <<>>
    ELSE C15_Visit(Head(entries).path, Head(entries).isDir, files)
         \o C15_VisitEntries(Tail(entries), files)

\* the regular files named like the binary below p, in walk order
C15_Matches(p, files) ==
    SelectSeq(C15_Visit(p, TRUE, files),
              LAMBDA e : ~e.isDir /\ e.path[Len(e.path)] = binaryName)

\* C15: when several regular files with the requested name exist in the
\* searched subtree, FindBinaryPath stops at the first one met in walk order
\* and returns its path; a later match never replaces it.  In the code the
\* SkipDir returned for a match ends the walk of the directory of the match
\* only: the walk goes on in the other directories and each match it meets
\* there overwrites binaryPath.
C15_FirstMatchWins ==
    (find.pc = "done" /\ Len(C15_Matches(find.p, fs.files)) >= 2) =>
        LET first == C15_Matches(find.p, fs.files)[1].path
            n == Len(fs.start) - Len(find.p)
        IN find.binaryPath =
               Join([i \in 1..n |-> ".."] \o SubSeq(first, Len(find.p) + 1, Len(first)), "/")

\* C16: for every Must.Pattern entry that does not compile, Ensure records
\* an error for that pattern, goes on with the remaining patterns and
\* checks, and returns normally with an assertion error; a pattern that does
\* not compile never aborts the evaluation.  In the code regexp.Compile
\* returns a nil *Regexp with the error, the error is recorded, and the call
\* of FindStringIndex on the nil pointer that follows panics.
C16_BadPatternIsAnError ==
    (ret.fn = "Ensure"
     /\ ~exitMismatch(call.a, call.err)
     /\ ~knownFailure(call.a, call.stderr)
     /\ \E i \in 1..Len(call.a.Must.Pattern) : ~regexpCompiles(call.a.Must.Pattern[i]))
        => /\ ~ret.panic
           /\ ret.err # <<>>
           /\ ret.checks = <<"assertWanted", "assertPattern", "assertErrors",
                             "assertDynamic", "assertMustNot">>

\* the expectations of the call that the outputs violate, counted per group
C19_Violations ==
    LET must == call.a.Must
        not == call.a.Not
        value(k) == IF k \in DOMAIN call.storage THEN call.storage[k] ELSE k
    IN Cardinality({i \in 1..Len(must.Output) :
                       IF must.Strict THEN call.stdout # must.Output[i]
                       ELSE ~Contains(call.stdout, must.Output[i])})
       + Cardinality({i \in 1..Len(must.Pattern) :
                       \/ ~regexpCompiles(must.Pattern[i])
                       \/ ~regexpFinds(must.Pattern[i], call.stdout)})
       + Cardinality({i \in 1..Len(must.Errors) : ~Contains(call.stderr, must.Errors[i])})
       + Cardinality({i \in 1..Len(must.Dynamic) :
                       ~Contains(call.stdout, value(must.Dynamic[i]))})
       + Cardinality({i \in 1..Len(not.Output) :
                       IF not.Strict THEN call.stdout = not.Output[i]
                       ELSE Contains(call.stdout, not.Output[i])})
       + Cardinality({i \in 1..Len(not.Errors) : Contains(call.stderr, not.Errors[i])})

\* C19: when the exit check passes and no known-failure message matches,
\* Ensure evaluates all five check groups whatever the earlier ones found,
\* returns nil exactly when no expectation is violated, and otherwise
\* returns one error with a message for every violated expectation.  It
\* does so unless a Must.Pattern entry does not compile: then it panics in
\* the second group (C16) and returns nothing.
C19_AllChecksAccumulate ==
    (ret.fn = "Ensure"
     /\ ~exitMismatch(call.a, call.err)
     /\ ~knownFailure(call.a, call.stderr))
        => /\ ~ret.panic
           /\ ret.checks = <<"assertWanted", "assertPattern", "assertErrors",
                             "assertDynamic", "assertMustNot">>
           /\ (ret.err = <<>>) <=> (C19_Violations = 0)
           /\ Len(ret.err) = C19_Violations

\* C20: when the exit status differs from WantErr, CanError is false and
\* CanErrorWithMessage is not empty, Ensure returns no error only if stderr
\* contains one of the messages, and returns an error if it contains none.
\* In the code a non-empty CanErrorWithMessage switches the exit check off:
\* when no message matches, Ensure goes on to the must / must-not checks and
\* returns nil if they pass.
C20_ToleratesOnlyOnMatch ==
    (ret.fn = "Ensure"
     /\ ~ret.panic
     /\ (call.err # <<>>) # call.a.WantErr
     /\ ~call.a.CanError
     /\ Len(call.a.CanErrorWithMessage) > 0)
        => /\ ret.err = <<>> => knownFailure(call.a, call.stderr)
           /\ ~knownFailure(call.a, call.stderr) => ret.err # <<>>

\* C17: with interactive lines the runner opens the stdin pipe, starts the
\* process, writes every line newline-terminated in order, closes the pipe
\* and only then waits; hence a child that reads its standard input to
\* end-of-file sees it, the wait completes, and the pipe is closed on every
\* exit path.  In the code the Close is deferred: it runs when runCommand
\* returns, after cmd.Wait() has returned, so the pipe is still open while
\* the runner waits, a child that reads to end-of-file never exits and the
\* call never returns.
C17_ClosesBeforeWait ==
    /\ [](ret.fn = "runCommand" /\ ret.pc = "wait" /\ Len(call.interactive) > 0
            => ret.pipe = "closed")
    /\ [](ret.fn = "runCommand" /\ ret.pc = "returned" /\ Len(call.interactive) > 0
            => ret.pipe = "closed")
    /\ <>(ret.fn = "runCommand" /\ ret.pc = "returned")

----------------------------------------------------------------------------
(* Claims about the callbacks of a case.                                   *)

\* case i has reached the execution of its process and is over: it waits
\* for its cooldown, has returned, or has panicked
C21_Executed(i) == "spawn" \in run[i].did /\ run[i].pc \in {"cooldown", "done", "panic"}

\* every registered callback of case i was invoked exactly once, after
\* Ensure, with the captured stdout and its own key
C21_EachCallbackOnce(i) ==
    /\ "ensure" \in run[i].did
    /\ \A k \in DOMAIN tests[i].Callbacks :
           Cardinality({c \in 1..Len(run[i].calls) : run[i].calls[c].key = k}) = 1
    /\ \A c \in 1..Len(run[i].calls) :
           /\ run[i].calls[c].key \in DOMAIN tests[i].Callbacks
           /\ run[i].calls[c].out = run[i].stdout

\* the report of case i holds the assertion error and, in addition, the
\* errors of its failing callbacks; no report is made when there is neither
C21_ErrorsAdditive(i) ==
    LET merr == run[i].ensureErr \o NewPrefixedError("callback", run[i].callbackErrs)
        errors == SelectSeq(run[i].reports, LAMBDA r : r.fn = "Error")
    IN IF merr = <<>> THEN errors = <<>>
       ELSE errors = <<[fn |-> "Error", msgs |-> merr]>>

\* a callback of case i that accepts the output has stored a value, and
\* what it has stored is in the store, unless another case stores under the
\* same key
C21_ValuesStay(i) ==
    \A k \in DOMAIN tests[i].Callbacks :
        (callback(tests[i].Callbacks[k], run[i].stdout, k, NewSafeMap, NoData).err = <<>>
         /\ \A j \in TestIds \ {i} : k \notin DOMAIN tests[j].Callbacks)
            => /\ \E c \in 1..Len(run[i].sets) : run[i].sets[c].key = k
               /\ k \in DOMAIN db
               /\ db[k] = StoredValue(i, k)

\* C21: for every case that reaches process execution, every registered
\* callback is invoked exactly once with the captured stdout, its key and
\* the store, after Ensure has returned and whether or not Ensure or another
\* callback failed; the errors of the failing callbacks are reported in
\* addition to the assertion error, and what the callbacks of a case with
\* failed assertions stored stays in the store.  It holds unless a
\* Must.Pattern entry of the case does not compile: Ensure then panics (C16)
\* and no callback of the case is invoked; and unless a callback of the case
\* ends the program on the map of testOutput, which leaves the callbacks
\* after it uninvoked.
C21_CallbacksAlwaysRun ==
    \A i \in TestIds :
        C21_Executed(i) =>
            /\ C21_EachCallbackOnce(i)
            /\ C21_ErrorsAdditive(i)
            /\ C21_ValuesStay(i)

====
